---- MODULE Spec2Model ----
(***************************************************************************)
(* go-file-dedupe: the concurrent traversal-and-hashing pipeline of        *)
(* fswalk.DigestAll (src/src/fswalk/fswalk.go): one walker goroutine, a    *)
(* pool of digester goroutines, the goroutine that closes the results      *)
(* channel, and the aggregation loop of DigestAll itself, all sharing one  *)
(* context.                                                                *)
(*                                                                         *)
(* A path is the identifier of a node of the directory tree; a tree is a   *)
(* sequence of nodes, node RootPath being the root passed to DigestAll.    *)
(* Names are natural numbers whose numeric order is the lexical order of   *)
(* the file names.                                                         *)
(***************************************************************************)
EXTENDS Integers, Sequences, FiniteSets, TLC

\* ---------------------------------------------------------------- bounds
\* Largest worker count handed to DigestAll.
MaxWorkers == 2

\* Largest number of paths on which the digest function returns an error.
MaxHashErrs == 1

\* --------------------------------------------------------- directory trees
RootPath == 1

Dir(p, nm, rd) ==
    [parent |-> p, name |-> nm, kind |-> "dir", readable |-> rd, content |-> 0]

File(p, nm, c) ==
    [parent |-> p, name |-> nm, kind |-> "file", readable |-> TRUE, content |-> c]

Symlink(p, nm) ==
    [parent |-> p, name |-> nm, kind |-> "symlink", readable |-> TRUE, content |-> 0]

\* root/{file1.txt="alpha", file2.txt="beta", subdir/file3.txt="alpha"}
TreeHappy == << Dir(0, 0, TRUE), File(1, 1, 1), File(1, 2, 2), Dir(1, 3, TRUE), File(4, 1, 1) >>

\* root/{a, b, c}, three files of identical content
TreeTriple == << Dir(0, 0, TRUE), File(1, 1, 1), File(1, 2, 1), File(1, 3, 1) >>

\* root/{readable_file.txt, unreadable/secret.txt}, unreadable has mode 0000
TreeUnreadable == << Dir(0, 0, TRUE), File(1, 1, 1), Dir(1, 2, FALSE), File(3, 1, 1) >>

\* an empty root directory
TreeEmpty == << Dir(0, 0, TRUE) >>

\* root/{sub/{x}, link -> x, y}: a nested file, a symlink and a second file
TreeLink == << Dir(0, 0, TRUE), Dir(1, 1, TRUE), File(2, 1, 1), Symlink(1, 2), File(1, 3, 2) >>

\* the root path does not exist: os.Lstat(root) fails
TreeMissing == << >>

\* root/{locked/{inner/, secret}, z}: locked has mode 0000 and sorts first
TreeSkip == << Dir(0, 0, TRUE), Dir(1, 1, FALSE), Dir(2, 1, TRUE), File(2, 2, 1), File(1, 2, 1) >>

\* the root directory exists but cannot be read
TreeRootUnreadable == << Dir(0, 0, FALSE), File(1, 1, 1) >>

Trees == {TreeHappy, TreeTriple, TreeUnreadable, TreeEmpty, TreeLink, TreeMissing,
          TreeSkip, TreeRootUnreadable}

Paths(tree) == 1..Len(tree)

RegularFiles(tree) == {p \in Paths(tree) : tree[p].kind = "file"}

\* os.ReadDir: the entries of directory n sorted by file name.
RECURSIVE SortByName(_, _)
SortByName(tree, S) ==
    IF S = {} THEN << >>
    ELSE LET m == CHOOSE x \in S : \A y \in S : tree[x].name <= tree[y].name
         IN  <<m>> \o SortByName(tree, S \ {m})

ReadDir(tree, n) == SortByName(tree, {p \in Paths(tree) : tree[p].parent = n})

\* filepath.WalkDir: the sequence of calls it makes to the walk function as
\* long as that function returns nil.  A call is (path, err): err is TRUE
\* when WalkDir reports a failed Lstat or ReadDir for the path.
RECURSIVE walkDir(_, _), walkEntries(_, _)
walkDir(tree, n) ==
    LET first == << [path |-> n, err |-> FALSE] >>
    IN  IF tree[n].kind # "dir" THEN first
        ELSE IF ~tree[n].readable THEN first \o << [path |-> n, err |-> TRUE] >>
        ELSE first \o walkEntries(tree, ReadDir(tree, n))

walkEntries(tree, dirs) ==
    IF dirs = << >> THEN << >>
    ELSE walkDir(tree, Head(dirs)) \o walkEntries(tree, Tail(dirs))

WalkDir(tree) ==
    IF Len(tree) = 0 THEN << [path |-> RootPath, err |-> TRUE] >>
    ELSE walkDir(tree, RootPath)

\* Regular files WalkDir reaches through readable directories.
ReachableFiles(tree) ==
    {WalkDir(tree)[i].path : i \in {j \in 1..Len(WalkDir(tree)) :
        /\ ~WalkDir(tree)[j].err
        /\ tree[WalkDir(tree)[j].path].kind = "file"}}

\* ------------------------------------------------------------- digests
\* The digest function of the tests (mockHashFunc): a digest that depends on
\* the file content only, here one byte, distinct for distinct contents.
mockHashFunc(tree, p) == << (tree[p].content * 37 + 144) % 256 >>

HexDigit == << "0", "1", "2", "3", "4", "5", "6", "7",
               "8", "9", "a", "b", "c", "d", "e", "f" >>

\* hex.EncodeToString: two lower-case hexadecimal digits per byte.
RECURSIVE EncodeToString(_)
EncodeToString(bytes) ==
    IF bytes = << >> THEN ""
    ELSE HexDigit[(Head(bytes) \div 16) + 1] \o HexDigit[(Head(bytes) % 16) + 1]
             \o EncodeToString(Tail(bytes))

\* ----------------------------------------------------------------- state
VARIABLES
    fsTree,         \* the tree rooted at root
    numWorkers,     \* argument numWorkers
    hasher,         \* argument hasher: "nil" or "fn"
    hashFails,      \* paths on which the digest function returns an error
    ctxErr,         \* ctx.Err(): "nil", "Canceled" or "DeadlineExceeded"
    ctxAtCall,      \* ctx.Err() at the time DigestAll was called
    pcMain,         \* DigestAll: "call", "spawn", "loop", "returned", "panic"
    pcWalker,       \* walker goroutine
    walkIdx,        \* index of the next call WalkDir makes
    walkRet,        \* the error filepath.WalkDir returns
    filesFound,     \* atomic counter
    filesHashed,    \* atomic counter
    pcWorker,       \* digester goroutines
    wResult,        \* the path and result a digester holds
    wgCount,        \* sync.WaitGroup counter
    pcCloser,       \* closer goroutine
    filePathsClosed,
    dirPathsClosed,
    cClosed,
    errcBuf,        \* contents of errc (capacity 1)
    cNil,           \* DigestAll set its c to nil
    dirPathsNil,    \* DigestAll set its dirPaths to nil
    errcNil,        \* DigestAll set its errc to nil
    hashesToPaths,
    discoveredDirs,
    finalWalkErr,
    ret,            \* what DigestAll returned
    resultsConsumed \* number of results DigestAll has received from c

\* the consolidation pass (Deduplicator.hardlinkDuplicates)
VARIABLES
    fileByteMapDups,    \* the duplicate groups, in the order the range visits them
    inode,              \* the file object each path denotes, 0 when the path is absent
    linksCreatedCount,  \* atomic counter
    pcLink,             \* "idle", "check", "remove", "link", "done"
    gi,                 \* index of the group being processed
    di,                 \* index in the group of the candidate being processed
    pass,               \* number of the current call of hardlinkDuplicates
    inodeInit,          \* inode before the first call
    inodeAtStart,       \* inode when the current call began
    countAtStart,       \* linksCreatedCount when the current call began
    failedPasses,       \* the calls in which a stat, remove or link failed
    status,             \* how the current call left each candidate
    optHardlink,        \* flag -hardlink
    optDryRun,          \* flag -dry-run
    digestErr,          \* the error DigestAll hands to Run
    pcApp,              \* main: "run", "wait", "afterRun", "exit130", "exit1", "finished"
    mainVersion,        \* which main runs: "main.go" or "part_005"
    signalled,          \* SIGINT or SIGTERM has been delivered: main's ctx is done
    reporterCancelled,  \* cancelReporter() has been called
    pcReporter          \* startProgressReporter: "running", "done"

\* the pooled hashers (package iphash)
VARIABLES
    md5Pool,            \* the hashers in the pool, each with the state it was put back in
    hw,                 \* the calls of GetFileHashMD5bytes in progress
    hashCalls           \* number of calls made so far

hashVars == << md5Pool, hw, hashCalls >>

linkVars == << fileByteMapDups, inode, linksCreatedCount, pcLink, gi, di, pass,
               inodeInit, inodeAtStart, countAtStart, failedPasses, status,
               optHardlink, optDryRun, digestErr, pcApp, mainVersion, signalled,
               reporterCancelled, pcReporter >>

vars == << hashVars, linkVars, fsTree, numWorkers, hasher, hashFails, ctxAtCall, ctxErr, pcMain, pcWalker,
           walkIdx, walkRet, filesFound, filesHashed, pcWorker, wResult,
           wgCount, pcCloser, filePathsClosed, dirPathsClosed, cClosed,
           errcBuf, cNil, dirPathsNil, errcNil, hashesToPaths,
           discoveredDirs, finalWalkErr, ret, resultsConsumed >>

inputVars == << fsTree, numWorkers, hasher, hashFails, ctxAtCall, linkVars, hashVars >>
walkerVars == << pcWalker, walkIdx, walkRet >>
workerVars == << pcWorker, wResult, wgCount >>
chanVars == << filePathsClosed, dirPathsClosed, cClosed, errcBuf >>
aggVars == << cNil, dirPathsNil, errcNil, hashesToPaths, discoveredDirs,
              finalWalkErr, ret, resultsConsumed >>

Workers == 1..MaxWorkers

EmptyMap == [h \in {} |-> << >>]

NoResult == [path |-> 0, sum |-> << >>, err |-> FALSE]

NoReturn == [nilMap |-> TRUE, duplicates |-> EmptyMap, dirs |-> << >>, err |-> "nil"]

\* the goroutines that call the hash function at the same time
MaxHashUsers == 2

HashUsers == 1..MaxHashUsers

NoCall == [pc |-> "idle", h |-> 0, file |-> << >>, pos |-> 1, sum |-> << >>, err |-> FALSE]

\* nothing has been hashed: the pool is empty
HashIdle ==
    /\ md5Pool = << >>
    /\ hw = [u \in HashUsers |-> NoCall]
    /\ hashCalls = 0

\* no consolidation pass has been asked for
LinkIdle ==
    /\ fileByteMapDups = << >>
    /\ inode = << >>
    /\ linksCreatedCount = 0
    /\ pcLink = "idle"
    /\ gi = 1
    /\ di = 2
    /\ pass = 0
    /\ inodeInit = << >>
    /\ inodeAtStart = << >>
    /\ countAtStart = 0
    /\ failedPasses = {}
    /\ status = << >>
    /\ optHardlink = FALSE
    /\ optDryRun = FALSE
    /\ digestErr = "nil"
    /\ pcApp = "run"
    /\ mainVersion = "main.go"
    /\ signalled = FALSE
    /\ reporterCancelled = FALSE
    /\ pcReporter = "running"

\* DigestAll has not been called
PipelineStart ==
    /\ pcMain = "call"
    /\ pcWalker = "idle"
    /\ walkIdx = 1
    /\ walkRet = "nil"
    /\ filesFound = 0
    /\ filesHashed = 0
    /\ pcWorker = [w \in Workers |-> "idle"]
    /\ wResult = [w \in Workers |-> NoResult]
    /\ wgCount = 0
    /\ pcCloser = "idle"
    /\ filePathsClosed = FALSE
    /\ dirPathsClosed = FALSE
    /\ cClosed = FALSE
    /\ errcBuf = << >>
    /\ cNil = FALSE
    /\ dirPathsNil = FALSE
    /\ errcNil = FALSE
    /\ hashesToPaths = EmptyMap
    /\ discoveredDirs = << >>
    /\ finalWalkErr = "nil"
    /\ ret = NoReturn
    /\ resultsConsumed = 0

Init ==
    /\ fsTree \in Trees
    /\ numWorkers \in -1..MaxWorkers
    /\ hasher \in {"nil", "fn"}
    /\ hashFails \in {S \in SUBSET RegularFiles(fsTree) : Cardinality(S) <= MaxHashErrs}
    /\ ctxErr \in {"nil", "Canceled", "DeadlineExceeded"}
    /\ ctxAtCall = ctxErr
    /\ LinkIdle
    /\ HashIdle
    /\ PipelineStart

Running == pcMain # "panic"

\* ------------------------------------------------- aggregation helpers
\* a table that keeps only the last path of a digest
AppendPathOverwrite(h2p, hashString, path) ==
    [h \in DOMAIN h2p \cup {hashString} |->
        IF h = hashString THEN << path >> ELSE h2p[h]]

\* hashesToPaths[hashString] = append(hashesToPaths[hashString], r.path)
AppendPath(h2p, hashString, path) ==
    [h \in DOMAIN h2p \cup {hashString} |->
        IF h = hashString
        THEN (IF h \in DOMAIN h2p THEN Append(h2p[h], path) ELSE << path >>)
        ELSE h2p[h]]

\* a counter that also counts the results that carry an error
HashedAfterAnyResult(r, hashed) == hashed + 1

\* filesHashed.Add(1), only for a result without error
HashedAfter(r, hashed) == IF r.err THEN hashed ELSE hashed + 1

\* a table that puts the newest path of a digest first
TableAfterPrepend(r, h2p) ==
    IF r.err THEN h2p
    ELSE [h \in DOMAIN h2p \cup {EncodeToString(r.sum)} |->
            IF h = EncodeToString(r.sum)
            THEN (IF h \in DOMAIN h2p THEN << r.path >> \o h2p[h] ELSE << r.path >>)
            ELSE h2p[h]]

\* the table after one result has been received from c
TableAfter(r, h2p) ==
    IF r.err THEN h2p ELSE AppendPath(h2p, EncodeToString(r.sum), r.path)

\* a filter that keeps every group, also those of a single path
DuplicatesKeepSingles(h2p) ==
    [h \in {k \in DOMAIN h2p : Len(h2p[k]) > 0} |-> h2p[h]]

\* the filter that builds the duplicates map out of hashesToPaths
Duplicates(h2p) ==
    [h \in {k \in DOMAIN h2p : Len(h2p[k]) > 1} |-> h2p[h]]

\* a walk function that sends the path without counting it
FoundAfterNoCount(found) == found

\* ------------------------------------- Deduplicator.findDuplicates
\* The variant of Deduplicator.Run that gets from DigestAll the map from
\* path to digest (m[r.path] = r.sum) and builds the duplicate table itself.
\* The map the aggregator has built when its table is h2p:
FileMap(tree, h2p) ==
    [p \in UNION {{h2p[h][i] : i \in 1..Len(h2p[h])} : h \in DOMAIN h2p} |->
        mockHashFunc(tree, p)]

\* `for path, hashBytes := range d.fileMap` visits the keys in any order.
RangeOrders(S) ==
    {o \in [1..Cardinality(S) -> S] : \A i, j \in DOMAIN o : i # j => o[i] # o[j]}

\* one iteration of the loop of findDuplicates
findDuplicatesStep(d, path, hashBytes) ==
    LET hashString == EncodeToString(hashBytes)
    IN  IF hashString \notin DOMAIN d.fileByteMap
        THEN [d EXCEPT !.fileByteMap =
                 [h \in DOMAIN d.fileByteMap \cup {hashString} |->
                     IF h = hashString THEN path ELSE d.fileByteMap[h]]]
        ELSE LET seeded ==
                     [h \in DOMAIN d.fileByteMapDups \cup {hashString} |->
                         IF h \in DOMAIN d.fileByteMapDups
                         THEN d.fileByteMapDups[h]
                         ELSE << d.fileByteMap[hashString] >>]
             IN  [d EXCEPT !.fileByteMapDups =
                     [seeded EXCEPT ![hashString] = Append(@, path)]]

RECURSIVE findDuplicatesFrom(_, _, _)
findDuplicatesFrom(d, fileMap, order) ==
    IF Len(order) = 0 THEN d
    ELSE findDuplicatesFrom(findDuplicatesStep(d, order[1], fileMap[order[1]]),
                            fileMap,
                            [i \in 1..(Len(order) - 1) |-> order[i + 1]])

\* d.fileByteMapDups after findDuplicates, for one order of iteration
findDuplicates(fileMap, order) ==
    findDuplicatesFrom([fileByteMap |-> [h \in {} |-> 0], fileByteMapDups |-> EmptyMap],
                       fileMap, order).fileByteMapDups

\* filesFound.Add(1) in the walk function
FoundAfter(found) == found + 1

\* what DigestAll returns once the loop has ended
DigestAllReturn(ctx, walkErr, h2p, dirs) ==
    IF ctx # "nil"
    THEN [nilMap |-> TRUE, duplicates |-> EmptyMap, dirs |-> dirs, err |-> ctx]
    ELSE IF walkErr = "nil"
    THEN [nilMap |-> FALSE, duplicates |-> Duplicates(h2p), dirs |-> dirs, err |-> "nil"]
    ELSE [nilMap |-> TRUE, duplicates |-> EmptyMap, dirs |-> dirs, err |-> walkErr]

\* errors.Is(err, target) for the errors of this program: DigestAll hands
\* back ctx.Err() or the walk error unwrapped
errorsIs(err, target) == err = target

\* Deduplicator.Run: what it returns for the result r of DigestAll; a
\* cancellation is returned as it is, any other error wrapped with %w
Run(r) ==
    IF r.err # "nil"
    THEN IF errorsIs(r.err, "Canceled")
         THEN [err |-> r.err, wrapped |-> FALSE]
         ELSE [err |-> r.err, wrapped |-> TRUE]
    ELSE [err |-> "nil", wrapped |-> FALSE]

\* main: the exit code for the error Run returned
ExitCode(e) ==
    IF e.err # "nil"
    THEN IF errorsIs(e.err, "Canceled") THEN 130 ELSE 1
    ELSE 0

\* walkFiles never closes errc
errcClosed == FALSE

\* errc after `case walkErr, ok = <-errc`: nil only when the channel is closed
ErrcNilAfterRecv(ok, wasNil) == IF ~ok THEN TRUE ELSE wasNil

\* the exit condition of the loop
LoopDone(cn, dn, en) == cn /\ dn /\ en

\* the end of one iteration of the loop: break and return, or go round again
EndIteration(cn, dn, en, h2p, dirs, walkErr) ==
    IF LoopDone(cn, dn, en)
    THEN /\ pcMain' = "returned"
         /\ ret' = DigestAllReturn(ctxErr, walkErr, h2p, dirs)
    ELSE /\ pcMain' = "loop"
         /\ ret' = ret

\* --------------------------------------------------------------- context
\* The context is cancelled (cancel function, signal or deadline).
Cancel ==
    /\ pcMain \in {"call", "spawn", "loop"}
    /\ ctxErr = "nil"
    /\ ctxErr' \in {"Canceled", "DeadlineExceeded"}
    /\ UNCHANGED << inputVars, pcMain, walkerVars, filesFound, filesHashed,
                    workerVars, pcCloser, chanVars, aggVars >>

\* ------------------------------------------------------------- DigestAll
\* filePaths, dirPaths, errc := walkFiles(ctx, root, filesFound)
CallWalkFiles ==
    /\ pcMain = "call"
    /\ pcMain' = "spawn"
    /\ pcWalker' = "visit"
    /\ UNCHANGED << inputVars, ctxErr, walkIdx, walkRet, filesFound, filesHashed,
                    workerVars, pcCloser, chanVars, aggVars >>

\* a pool that starts every goroutine it has room for
StartedAll(w, n) == TRUE

\* `for i := 0; i < numWorkers; i++ { go ... }`: digester w is started
Started(w, n) == w <= n

\* wg.Add(numWorkers), the digesters and the closer are started.
StartWorkers ==
    /\ pcMain = "spawn"
    /\ IF numWorkers < 0
       THEN /\ pcMain' = "panic"      \* sync: negative WaitGroup counter
            /\ UNCHANGED << workerVars, pcCloser >>
       ELSE /\ pcMain' = "loop"
            /\ wgCount' = numWorkers
            /\ pcWorker' = [w \in Workers |-> IF Started(w, numWorkers) THEN "recv" ELSE "idle"]
            /\ pcCloser' = "wait"
            /\ UNCHANGED wResult
    /\ UNCHANGED << inputVars, ctxErr, walkerVars, filesFound, filesHashed,
                    chanVars, aggVars >>

\* ---------------------------------------------------------------- walker
\* the position of the walker after the walk function returned nil
AfterCall(idx) == IF idx + 1 > Len(WalkDir(fsTree)) THEN "sendErr" ELSE "visit"

\* a walk function that hands an access error back to WalkDir
WalkFnOnErrorPropagate(call) == "EACCES"

\* `if err != nil { fmt.Printf("Warning: ..."); return nil }`
WalkFnOnError(call) == "nil"

\* a walk function that reports the root directory as well
ReportsDirAlways(path) == TRUE

\* `if path != root`: the root directory itself is not reported
ReportsDir(path) == path # RootPath

\* a walk function that never looks at the context
CtxDoneNever(err) == FALSE

\* `select { case <-ctx.Done(): return ctx.Err(); default: }`
CtxDone(err) == err # "nil"

\* One call of the walk function up to its channel send.
WalkerVisit ==
    /\ Running
    /\ pcWalker = "visit"
    /\ LET call == WalkDir(fsTree)[walkIdx]
       IN  IF CtxDone(ctxErr)
           THEN /\ walkRet' = ctxErr
                /\ pcWalker' = "sendErr"
                /\ UNCHANGED << walkIdx, filesFound >>
           ELSE IF call.err
           THEN IF WalkFnOnError(call) = "nil"
                THEN /\ walkIdx' = walkIdx + 1
                     /\ pcWalker' = AfterCall(walkIdx)
                     /\ UNCHANGED << walkRet, filesFound >>
                ELSE /\ walkRet' = WalkFnOnError(call)
                     /\ pcWalker' = "sendErr"
                     /\ UNCHANGED << walkIdx, filesFound >>
           ELSE IF fsTree[call.path].kind = "dir"
           THEN IF ReportsDir(call.path)
                THEN /\ pcWalker' = "sendDir"
                     /\ UNCHANGED << walkIdx, walkRet, filesFound >>
                ELSE /\ walkIdx' = walkIdx + 1
                     /\ pcWalker' = AfterCall(walkIdx)
                     /\ UNCHANGED << walkRet, filesFound >>
           ELSE IF fsTree[call.path].kind = "file"
           THEN /\ filesFound' = FoundAfter(filesFound)
                /\ pcWalker' = "sendFile"
                /\ UNCHANGED << walkIdx, walkRet >>
           ELSE /\ walkIdx' = walkIdx + 1
                /\ pcWalker' = AfterCall(walkIdx)
                /\ UNCHANGED << walkRet, filesFound >>
    /\ UNCHANGED << inputVars, ctxErr, pcMain, filesHashed, workerVars,
                    pcCloser, chanVars, aggVars >>

\* errc <- filepath.WalkDir(root, walker)
WalkerSendErr ==
    /\ Running
    /\ pcWalker = "sendErr"
    /\ Len(errcBuf) < 1
    /\ errcBuf' = Append(errcBuf, walkRet)
    /\ pcWalker' = "closeDirs"
    /\ UNCHANGED << inputVars, ctxErr, pcMain, walkIdx, walkRet, filesFound,
                    filesHashed, workerVars, pcCloser, filePathsClosed,
                    dirPathsClosed, cClosed, aggVars >>

\* defer close(dirPaths)
WalkerCloseDirPaths ==
    /\ Running
    /\ pcWalker = "closeDirs"
    /\ dirPathsClosed' = TRUE
    /\ pcWalker' = "closeFiles"
    /\ UNCHANGED << inputVars, ctxErr, pcMain, walkIdx, walkRet, filesFound,
                    filesHashed, workerVars, pcCloser, filePathsClosed,
                    cClosed, errcBuf, aggVars >>

\* defer close(filePaths)
WalkerCloseFilePaths ==
    /\ Running
    /\ pcWalker = "closeFiles"
    /\ filePathsClosed' = TRUE
    /\ pcWalker' = "done"
    /\ UNCHANGED << inputVars, ctxErr, pcMain, walkIdx, walkRet, filesFound,
                    filesHashed, workerVars, pcCloser, dirPathsClosed,
                    cClosed, errcBuf, aggVars >>

\* -------------------------------------------------------------- digester
\* `filePaths <- path` of the walker meets `range filePaths` of digester w.
DigesterReceive(w) ==
    /\ Running
    /\ pcWalker = "sendFile"
    /\ pcWorker[w] = "recv"
    /\ pcWorker' = [pcWorker EXCEPT ![w] = "hash"]
    /\ wResult' = [wResult EXCEPT ![w] =
                      [path |-> WalkDir(fsTree)[walkIdx].path, sum |-> << >>, err |-> FALSE]]
    /\ walkIdx' = walkIdx + 1
    /\ pcWalker' = AfterCall(walkIdx)
    /\ UNCHANGED << inputVars, ctxErr, pcMain, walkRet, filesFound, filesHashed,
                    wgCount, pcCloser, chanVars, aggVars >>

\* hashFile(path): a digest, or an error for the paths of hashFails
HashFile(path) ==
    IF path \in hashFails
    THEN [path |-> path, sum |-> << >>, err |-> TRUE]
    ELSE [path |-> path, sum |-> mockHashFunc(fsTree, path), err |-> FALSE]

\* data, err := hashFile(path); calling a nil function value panics
DigesterHash(w) ==
    /\ Running
    /\ pcWorker[w] = "hash"
    /\ IF hasher = "nil"
       THEN /\ pcMain' = "panic"
            /\ UNCHANGED << pcWorker, wResult >>
       ELSE /\ wResult' = [wResult EXCEPT ![w] = HashFile(wResult[w].path)]
            /\ pcWorker' = [pcWorker EXCEPT ![w] = "send"]
            /\ UNCHANGED pcMain
    /\ UNCHANGED << inputVars, ctxErr, walkerVars, filesFound, filesHashed,
                    wgCount, pcCloser, chanVars, aggVars >>

\* a digester that counts the result it drops
DigesterCtxDoneCounts(w) ==
    /\ Running
    /\ pcWorker[w] = "send"
    /\ ctxErr # "nil"
    /\ pcWorker' = [pcWorker EXCEPT ![w] = "done"]
    /\ wgCount' = wgCount - 1
    /\ filesHashed' = filesHashed + 1
    /\ UNCHANGED << inputVars, ctxErr, pcMain, walkerVars, filesFound,
                    wResult, pcCloser, chanVars, aggVars >>

\* `case <-ctx.Done(): return` of the select, then the deferred wg.Done()
DigesterCtxDone(w) ==
    /\ Running
    /\ pcWorker[w] = "send"
    /\ ctxErr # "nil"
    /\ pcWorker' = [pcWorker EXCEPT ![w] = "done"]
    /\ wgCount' = wgCount - 1
    /\ UNCHANGED << inputVars, ctxErr, pcMain, walkerVars, filesFound,
                    filesHashed, wResult, pcCloser, chanVars, aggVars >>

\* `range filePaths` ends on the closed channel, then the deferred wg.Done()
DigesterRangeEnd(w) ==
    /\ Running
    /\ pcWorker[w] = "recv"
    /\ filePathsClosed
    /\ pcWorker' = [pcWorker EXCEPT ![w] = "done"]
    /\ wgCount' = wgCount - 1
    /\ UNCHANGED << inputVars, ctxErr, pcMain, walkerVars, filesFound,
                    filesHashed, wResult, pcCloser, chanVars, aggVars >>

\* ---------------------------------------------------------------- closer
\* a closer that does not wait for the digesters
CloserCloseEarly ==
    /\ Running
    /\ pcCloser = "wait"
    /\ cClosed' = TRUE
    /\ pcCloser' = "done"
    /\ UNCHANGED << inputVars, ctxErr, pcMain, walkerVars, filesFound,
                    filesHashed, workerVars, filePathsClosed, dirPathsClosed,
                    errcBuf, aggVars >>

\* wg.Wait(); close(c)
CloserClose ==
    /\ Running
    /\ pcCloser = "wait"
    /\ wgCount = 0
    /\ cClosed' = TRUE
    /\ pcCloser' = "done"
    /\ UNCHANGED << inputVars, ctxErr, pcMain, walkerVars, filesFound,
                    filesHashed, workerVars, filePathsClosed, dirPathsClosed,
                    errcBuf, aggVars >>

\* ------------------------------------------------------ aggregation loop
\* `case r, ok = <-c` with ok: the send of digester w is received.
AggResult(w) ==
    /\ pcMain = "loop"
    /\ ~cNil
    /\ pcWorker[w] = "send"
    /\ filesHashed' = HashedAfter(wResult[w], filesHashed)
    /\ hashesToPaths' = TableAfter(wResult[w], hashesToPaths)
    /\ resultsConsumed' = resultsConsumed + 1
    /\ pcWorker' = [pcWorker EXCEPT ![w] = "recv"]
    /\ EndIteration(cNil, dirPathsNil, errcNil, hashesToPaths', discoveredDirs,
                    finalWalkErr)
    /\ UNCHANGED << inputVars, ctxErr, walkerVars, filesFound, wResult, wgCount,
                    pcCloser, chanVars, cNil, dirPathsNil, errcNil,
                    discoveredDirs, finalWalkErr >>

\* `case r, ok = <-c` with !ok: c is closed, c = nil
AggResultsClosed ==
    /\ pcMain = "loop"
    /\ ~cNil
    /\ cClosed
    /\ cNil' = TRUE
    /\ EndIteration(TRUE, dirPathsNil, errcNil, hashesToPaths, discoveredDirs,
                    finalWalkErr)
    /\ UNCHANGED << resultsConsumed, inputVars, ctxErr, walkerVars, filesFound, filesHashed,
                    workerVars, pcCloser, chanVars, dirPathsNil, errcNil,
                    hashesToPaths, discoveredDirs, finalWalkErr >>

\* `case dirPath, ok = <-dirPaths` with ok: the send of the walker is received.
AggDirPath ==
    /\ pcMain = "loop"
    /\ ~dirPathsNil
    /\ pcWalker = "sendDir"
    /\ discoveredDirs' = Append(discoveredDirs, WalkDir(fsTree)[walkIdx].path)
    /\ walkIdx' = walkIdx + 1
    /\ pcWalker' = AfterCall(walkIdx)
    /\ EndIteration(cNil, dirPathsNil, errcNil, hashesToPaths, discoveredDirs',
                    finalWalkErr)
    /\ UNCHANGED << resultsConsumed, inputVars, ctxErr, walkRet, filesFound, filesHashed,
                    workerVars, pcCloser, chanVars, cNil, dirPathsNil, errcNil,
                    hashesToPaths, finalWalkErr >>

\* `case dirPath, ok = <-dirPaths` with !ok: dirPaths = nil
AggDirPathsClosed ==
    /\ pcMain = "loop"
    /\ ~dirPathsNil
    /\ dirPathsClosed
    /\ dirPathsNil' = TRUE
    /\ EndIteration(cNil, TRUE, errcNil, hashesToPaths, discoveredDirs,
                    finalWalkErr)
    /\ UNCHANGED << resultsConsumed, inputVars, ctxErr, walkerVars, filesFound, filesHashed,
                    workerVars, pcCloser, chanVars, cNil, errcNil,
                    hashesToPaths, discoveredDirs, finalWalkErr >>

\* `case walkErr, ok = <-errc`: the walk outcome is received (ok), or the
\* channel is closed (!ok).
AggWalkErr ==
    /\ pcMain = "loop"
    /\ ~errcNil
    /\ errcBuf # << >> \/ errcClosed
    /\ LET ok == errcBuf # << >>
       IN  /\ errcNil' = ErrcNilAfterRecv(ok, errcNil)
           /\ finalWalkErr' = IF ok THEN Head(errcBuf) ELSE finalWalkErr
           /\ errcBuf' = IF ok THEN Tail(errcBuf) ELSE errcBuf
    /\ EndIteration(cNil, dirPathsNil, errcNil', hashesToPaths, discoveredDirs,
                    finalWalkErr')
    /\ UNCHANGED << resultsConsumed, inputVars, ctxErr, walkerVars, filesFound, filesHashed,
                    workerVars, pcCloser, filePathsClosed, dirPathsClosed,
                    cClosed, cNil, dirPathsNil, hashesToPaths, discoveredDirs >>

Next ==
    \/ Cancel
    \/ CallWalkFiles
    \/ StartWorkers
    \/ WalkerVisit
    \/ WalkerSendErr
    \/ WalkerCloseDirPaths
    \/ WalkerCloseFilePaths
    \/ \E w \in Workers : DigesterReceive(w)
    \/ \E w \in Workers : DigesterHash(w)
    \/ \E w \in Workers : DigesterCtxDone(w)
    \/ \E w \in Workers : DigesterRangeEnd(w)
    \/ CloserClose
    \/ \E w \in Workers : AggResult(w)
    \/ AggResultsClosed
    \/ AggDirPath
    \/ AggDirPathsClosed
    \/ AggWalkErr

Spec == Init /\ [][Next]_vars

\* -------------------------------------------------------------- fairness
\* The Go scheduler runs every goroutine that can take a step; nothing makes
\* the context be cancelled.
WalkerStep ==
    \/ WalkerVisit
    \/ WalkerSendErr
    \/ WalkerCloseDirPaths
    \/ WalkerCloseFilePaths
    \/ \E w \in Workers : DigesterReceive(w)
    \/ AggDirPath

DigesterStep(w) ==
    \/ DigesterReceive(w)
    \/ DigesterHash(w)
    \/ DigesterCtxDone(w)
    \/ DigesterRangeEnd(w)
    \/ AggResult(w)

DigestAllStep ==
    \/ CallWalkFiles
    \/ StartWorkers
    \/ \E w \in Workers : AggResult(w)
    \/ AggResultsClosed
    \/ AggDirPath
    \/ AggDirPathsClosed
    \/ AggWalkErr

Fairness ==
    /\ WF_vars(WalkerStep)
    /\ \A w \in Workers : WF_vars(DigesterStep(w))
    /\ WF_vars(CloserClose)
    /\ WF_vars(DigestAllStep)

FairSpec == Spec /\ Fairness

\* ------------------------------------------------------------ properties
\* A configuration the specification accepts: a digest function and W >= 1.
ValidConfig == numWorkers >= 1 /\ hasher = "fn"

Returned == pcMain = "returned"

StartedWorkers == {w \in Workers : w <= numWorkers}

\* The aggregator has seen the results channel closed: every result that
\* will ever be sent has been aggregated.
AllAggregated == pcMain = "loop" /\ cNil

\* the paths of one group, as a set
GroupSet(h2p, h) == {h2p[h][i] : i \in 1..Len(h2p[h])}

\* Some goroutine of the pipeline can take a step.
GoroutineStep ==
    \/ WalkerStep
    \/ \E w \in Workers : DigesterStep(w)
    \/ CloserClose
    \/ DigestAllStep

\* No goroutine can take a step any more: the state in which every fair
\* execution that reaches it stays forever.
Quiescent == ~ENABLED GoroutineStep

\* C1: with a valid configuration and a context that is never cancelled,
\* every fair execution of DigestAll eventually returns, with a nil error:
\* the pipeline comes to rest only with DigestAll returned and a nil error.
C1_FairRunReturnsNil ==
    (ValidConfig /\ ctxErr = "nil" /\ Quiescent) =>
        (Returned /\ ret.err = "nil")

\* C2: when the context is cancelled during a run, every fair execution of
\* DigestAll still returns, with the context's error: the pipeline comes to
\* rest only with DigestAll returned, never in a deadlock.
C2_CancelledRunReturnsCtxErr ==
    (ValidConfig /\ ctxAtCall = "nil" /\ ctxErr # "nil" /\ Quiescent) =>
        (Returned /\ ret.err = ctxErr)

\* C3: DigestAll called with a context that is already cancelled returns a
\* cancellation outcome and never blocks.
C3_AlreadyCancelledReturns ==
    (ValidConfig /\ ctxAtCall # "nil" /\ Quiescent) =>
        (Returned /\ ret.err = ctxAtCall)

\* C4 (as stated): on a run without cancellation and without hash errors,
\* once every result has been aggregated, any two regular files under root
\* of equal digest are in one group of the duplicate table, and no group of
\* the table holds two files of different digests.
C4_AnyTwoFilesUnderRootShareGroup ==
    (ValidConfig /\ ctxErr = "nil" /\ hashFails = {} /\ AllAggregated) =>
        /\ \A f1, f2 \in RegularFiles(fsTree) :
              (f1 # f2 /\ mockHashFunc(fsTree, f1) = mockHashFunc(fsTree, f2)) =>
                  \E h \in DOMAIN Duplicates(hashesToPaths) :
                      {f1, f2} \subseteq GroupSet(Duplicates(hashesToPaths), h)
        /\ \A h \in DOMAIN hashesToPaths :
              \A f1, f2 \in GroupSet(hashesToPaths, h) :
                  mockHashFunc(fsTree, f1) = mockHashFunc(fsTree, f2)

\* C4 (amended): on a run without cancellation and without hash errors,
\* once every result has been aggregated, any two regular files of equal
\* digest that are reachable from root through readable directories are in
\* one group of the duplicate table, a file below an unreadable directory is
\* in no group, and no group holds two files of different digests.
C4_EqualDigestsShareGroup ==
    (ValidConfig /\ ctxErr = "nil" /\ hashFails = {} /\ AllAggregated) =>
        /\ \A f1, f2 \in ReachableFiles(fsTree) :
              (f1 # f2 /\ mockHashFunc(fsTree, f1) = mockHashFunc(fsTree, f2)) =>
                  \E h \in DOMAIN Duplicates(hashesToPaths) :
                      {f1, f2} \subseteq GroupSet(Duplicates(hashesToPaths), h)
        /\ \A f \in RegularFiles(fsTree) \ ReachableFiles(fsTree) :
              \A h \in DOMAIN hashesToPaths : f \notin GroupSet(hashesToPaths, h)
        /\ \A h \in DOMAIN hashesToPaths :
              \A f1, f2 \in GroupSet(hashesToPaths, h) :
                  mockHashFunc(fsTree, f1) = mockHashFunc(fsTree, f2)

C4_Witness ==
    /\ ValidConfig /\ ctxErr = "nil" /\ hashFails = {} /\ AllAggregated
    /\ \E f1, f2 \in ReachableFiles(fsTree) :
          f1 # f2 /\ mockHashFunc(fsTree, f1) = mockHashFunc(fsTree, f2)
    /\ \E f1, f2 \in ReachableFiles(fsTree) :
          mockHashFunc(fsTree, f1) # mockHashFunc(fsTree, f2)

\* C6: in every reachable state, for every interleaving, with or without
\* cancellation and hash errors, filesHashed <= filesFound.
C6_HashedAtMostFound == filesHashed <= filesFound

C6_Witness ==
    /\ filesHashed >= 2
    /\ filesHashed = filesFound
    /\ ctxErr # "nil"
    /\ hashFails # {}

\* C7: every group of the duplicate table has at least two paths, and a
\* digest that exactly one successfully hashed file has is not a key of the
\* table; for the table DigestAll filters out of hashesToPaths and for the
\* table findDuplicates builds, whatever the order of its iteration.
C7_GroupsHaveTwoPaths ==
    /\ \A h \in DOMAIN Duplicates(hashesToPaths) :
          Len(Duplicates(hashesToPaths)[h]) >= 2
    /\ \A f \in RegularFiles(fsTree) :
          LET hs == EncodeToString(mockHashFunc(fsTree, f))
          IN  (hs \in DOMAIN hashesToPaths /\ hashesToPaths[hs] = << f >>)
                  => hs \notin DOMAIN Duplicates(hashesToPaths)
    /\ Returned => \A h \in DOMAIN ret.duplicates : Len(ret.duplicates[h]) >= 2
    /\ LET fileMap == FileMap(fsTree, hashesToPaths)
       IN  \A order \in RangeOrders(DOMAIN fileMap) :
              LET dups == findDuplicates(fileMap, order)
              IN  /\ \A h \in DOMAIN dups : Len(dups[h]) >= 2
                  /\ \A f \in DOMAIN fileMap :
                        (\A g \in DOMAIN fileMap : fileMap[g] = fileMap[f] => g = f)
                            => EncodeToString(fileMap[f]) \notin DOMAIN dups

C7_Witness ==
    /\ AllAggregated
    /\ \E h \in DOMAIN hashesToPaths : Len(hashesToPaths[h]) = 1
    /\ \E h \in DOMAIN hashesToPaths : Len(hashesToPaths[h]) = 2

\* C8: with a nil digest function or a worker count below 1, DigestAll fails
\* at once: no walker and no digester is started and no counter changes.
C8_BadConfigStartsNothing ==
    (numWorkers < 1 \/ hasher = "nil") =>
        /\ pcWalker = "idle"
        /\ \A w \in Workers : pcWorker[w] = "idle"
        /\ filesFound = 0
        /\ filesHashed = 0
        /\ pcMain # "panic"

\* C9: a result that carries an error is not counted in filesHashed and
\* its path is in no group; every other file is hashed and aggregated, and
\* a run whose only failures are hash errors ends with a nil outcome.
C9_HashErrorsLeaveOutcomeNil ==
    (ValidConfig /\ hashFails \cap ReachableFiles(fsTree) # {}
        /\ ctxErr = "nil" /\ Quiescent) =>
        /\ Returned
        /\ ret.err = "nil"
        /\ filesHashed = Cardinality(ReachableFiles(fsTree) \ hashFails)
        /\ \A h \in DOMAIN hashesToPaths :
              GroupSet(hashesToPaths, h) \cap hashFails = {}

\* Three files of identical content, the digest function failing on exactly
\* one of them, every result aggregated and no cancellation.
TripleRunEnded ==
    /\ ValidConfig
    /\ fsTree = TreeTriple
    /\ Cardinality(hashFails) = 1
    /\ ctxErr = "nil"
    /\ AllAggregated

\* C10 (as stated): the run ends with filesFound = 3, filesHashed = 2 and no
\* duplicate group.
C10_NoGroupForTriple ==
    TripleRunEnded =>
        /\ filesFound = 3
        /\ filesHashed = 2
        /\ DOMAIN Duplicates(hashesToPaths) = {}

\* C10 (amended): the run ends with filesFound = 3, filesHashed = 2 and one
\* duplicate group, which holds the two files that were hashed.
C10_OneGroupForTriple ==
    TripleRunEnded =>
        /\ filesFound = 3
        /\ filesHashed = 2
        /\ Cardinality(DOMAIN Duplicates(hashesToPaths)) = 1
        /\ \A h \in DOMAIN Duplicates(hashesToPaths) :
              GroupSet(Duplicates(hashesToPaths), h) = RegularFiles(fsTree) \ hashFails

C10_Witness == TripleRunEnded /\ filesHashed = 2

\* -------------------------------------------- claims on partial results
\* The value of the return statements of DigestAll on the present tables;
\* the statements are not reached from a state at rest (errc is not nil).
ReturnNow == DigestAllReturn(ctxErr, finalWalkErr, hashesToPaths, discoveredDirs)

\* The pipeline at rest: the loop has seen c and dirPaths closed (both set to
\* nil), the walker has finished and its outcome has been received.  errc is
\* not nil, so the exit test of the loop is false here: DigestAll has not
\* returned and waits in its select for ever.  The counters and tables have
\* the last values they ever take.
Drained == pcMain = "loop" /\ cNil /\ dirPathsNil /\ pcWalker = "done" /\ errcBuf = << >>

\* C11: when DigestAll ends with a cancellation or a walk error it hands
\* back, with that outcome, the duplicate groups formed from the results
\* already aggregated and the directories already discovered.
C11_PartialTablesReturned ==
    (ValidConfig /\ Drained /\ ReturnNow.err # "nil") =>
        /\ ReturnNow.dirs = discoveredDirs
        /\ \A h \in DOMAIN Duplicates(hashesToPaths) :
              /\ ~ReturnNow.nilMap
              /\ h \in DOMAIN ReturnNow.duplicates
              /\ ReturnNow.duplicates[h] = hashesToPaths[h]

\* C12: if the root path does not exist or cannot be read, the outcome of
\* the walk, and so of DigestAll, is a non-nil walk error that is not a
\* cancellation.
C12_BadRootIsWalkError ==
    (fsTree \in {TreeMissing, TreeRootUnreadable} /\ ctxErr = "nil" /\ Drained) =>
        ReturnNow.err \notin {"nil", "Canceled", "DeadlineExceeded"}

\* A path WalkDir can reach: every directory above it can be read.
RECURSIVE Visible(_, _)
Visible(tree, p) ==
    IF p = RootPath THEN TRUE
    ELSE /\ tree[tree[p].parent].kind = "dir"
         /\ tree[tree[p].parent].readable
         /\ Visible(tree, tree[p].parent)

VisibleFiles(tree) == {p \in RegularFiles(tree) : Visible(tree, p)}

VisibleDirs(tree) == {p \in Paths(tree) : tree[p].kind = "dir" /\ Visible(tree, p)}

WalkEnded == pcWalker \in {"closeDirs", "closeFiles", "done"}

\* C13: an access error on a directory is not fatal: the walker skips the
\* subtree, goes on with the remaining entries and its outcome stays nil;
\* the files inside the subtree are counted in no counter and are in no group.
C13_UnreadableDirSkipped ==
    /\ \A f \in RegularFiles(fsTree) \ VisibleFiles(fsTree) :
          /\ \A h \in DOMAIN hashesToPaths : f \notin GroupSet(hashesToPaths, h)
          /\ \A w \in Workers : wResult[w].path # f
    /\ filesFound <= Cardinality(VisibleFiles(fsTree))
    /\ filesHashed <= Cardinality(VisibleFiles(fsTree))
    /\ (ctxErr = "nil" /\ WalkEnded) =>
          /\ walkRet = "nil"
          /\ walkIdx = Len(WalkDir(fsTree)) + 1
          /\ filesFound = Cardinality(VisibleFiles(fsTree))

C13_Witness ==
    /\ fsTree = TreeSkip
    /\ ctxErr = "nil"
    /\ Drained
    /\ filesFound = 1
    /\ filesHashed = 1

\* C14: at the end of a run that is not cancelled, filesFound is the number
\* of regular files reachable under root through readable directories and,
\* when the digest function never errors, filesHashed = filesFound.
C14_CountersAtEnd ==
    (ValidConfig /\ ctxErr = "nil" /\ Drained) =>
        /\ filesFound = Cardinality(VisibleFiles(fsTree))
        /\ (hashFails \cap VisibleFiles(fsTree) = {}) => filesHashed = filesFound

C14_Witness ==
    /\ ValidConfig /\ ctxErr = "nil" /\ Drained
    /\ fsTree = TreeLink
    /\ hashFails = {}
    /\ filesHashed = 2

\* the paths of the list of discovered directories, as a set
DirSet == {discoveredDirs[i] : i \in 1..Len(discoveredDirs)}

NoDirTwice ==
    \A i, j \in 1..Len(discoveredDirs) : i # j => discoveredDirs[i] # discoveredDirs[j]

\* C15 (as stated): at the end of a run that is not cancelled the list of
\* discovered directories holds every directory below root exactly once and
\* never root.
C15_EveryDirDiscovered ==
    (ctxErr = "nil" /\ Drained) =>
        /\ DirSet = {p \in Paths(fsTree) : fsTree[p].kind = "dir"} \ {RootPath}
        /\ NoDirTwice

\* C15 (amended): at the end of a run that is not cancelled the list holds
\* every directory below root that is reachable through readable
\* directories exactly once, and never root.
C15_EveryVisibleDirDiscovered ==
    (ctxErr = "nil" /\ Drained) =>
        /\ DirSet = VisibleDirs(fsTree) \ {RootPath}
        /\ NoDirTwice

C15_Witness ==
    /\ ctxErr = "nil" /\ Drained
    /\ fsTree = TreeSkip
    /\ discoveredDirs = << 2 >>

\* C16: whenever the pipeline ends because the context was cancelled, a
\* timeout included, the caller of Run sees the cancellation outcome (the
\* one main turns into exit code 130); a fatal walk error is seen as a
\* failure (exit code 1).
C16_CancellationIsExit130 ==
    (ValidConfig /\ Drained) =>
        /\ ctxErr # "nil" => ExitCode(Run(ReturnNow)) = 130
        /\ (ctxErr = "nil" /\ finalWalkErr # "nil") => ExitCode(Run(ReturnNow)) = 1

\* ------------------------------------------------ consolidation (hard links)
MaxPasses == 2

\* The duplicate groups handed to hardlinkDuplicates: every group has at
\* least two paths and no path is in two groups. The range over the map
\* visits the groups in any order.
DupGroupSets ==
    { << <<1, 2>> >>,
      << <<1, 2, 3>> >>,
      << <<1, 2>>, <<3, 4>> >>,
      << <<3, 4>>, <<1, 2>> >>,
      << <<1, 2, 3>>, <<4, 5>> >> }

LinkPaths(groups) == UNION {{groups[g][i] : i \in 1..Len(groups[g])} : g \in 1..Len(groups)}

Candidates(groups) ==
    UNION {{groups[g][i] : i \in 2..Len(groups[g])} : g \in 1..Len(groups)}

\* the first path of the group that holds p
OriginalOf(groups, p) ==
    LET g == CHOOSE k \in 1..Len(groups) : \E i \in 1..Len(groups[k]) : groups[k][i] = p
    IN  groups[g][1]

\* The file objects the scanned paths may denote: every path exists, a file
\* object is named after the first path that denotes it, and paths with the
\* same object have the same content, so they are in the same group.
InodeMaps(groups) ==
    { f \in [LinkPaths(groups) -> LinkPaths(groups)] :
        \A p \in LinkPaths(groups) :
            /\ f[p] <= p
            /\ f[f[p]] = f[p]
            /\ OriginalOf(groups, f[p]) = OriginalOf(groups, p) }

\* os.SameFile that never recognises a shared file object
SameFileNever(info1, info2) == FALSE

\* os.SameFile(info1, info2)
SameFile(info1, info2) == info1 = info2

\* areFilesHardLinked(path1, path2): os.Stat fails on an absent path, and may
\* fail for another reason (statFails)
areFilesHardLinked(fs, path1, path2, statFails) ==
    IF statFails \/ fs[path1] = 0 \/ fs[path2] = 0
    THEN [same |-> FALSE, err |-> TRUE]
    ELSE [same |-> SameFile(fs[path1], fs[path2]), err |-> FALSE]

\* a pass that removes the original instead of the duplicate
RemoveTargetOriginal(originalPath, duplicatePath) == originalPath

\* os.Remove(duplicatePath)
RemoveTarget(originalPath, duplicatePath) == duplicatePath

\* a pass that forgets to count the link it made
CountAfterLinkSame(n) == n

\* d.linksCreatedCount.Add(1)
CountAfterLink(n) == n + 1

LinkDone(g, d) == [pc |-> "done", gi |-> g, di |-> d]

\* the next candidate of the group, or the first one of the next group
NextCandidate(groups, g, d) ==
    IF d < Len(groups[g]) THEN [pc |-> "check", gi |-> g, di |-> d + 1]
    ELSE IF g < Len(groups) THEN [pc |-> "check", gi |-> g + 1, di |-> 2]
    ELSE LinkDone(g, d)

\* a pass that returns at the first failure
OnFailureReturn(groups, g, d) == LinkDone(g, d)

\* `continue` after a logged failure
OnFailure(groups, g, d) == NextCandidate(groups, g, d)

originalPath == fileByteMapDups[gi][1]

duplicatePath == fileByteMapDups[gi][di]

GoTo(pos) ==
    /\ pcLink' = pos.pc
    /\ gi' = pos.gi
    /\ di' = pos.di

FailHere(what) ==
    /\ status' = [status EXCEPT ![duplicatePath] = what]
    /\ failedPasses' = failedPasses \cup {pass}
    /\ GoTo(OnFailure(fileByteMapDups, gi, di))

pipelineVars ==
    << fsTree, numWorkers, hasher, hashFails, ctxAtCall, ctxErr, pcMain, pcWalker,
       walkIdx, walkRet, filesFound, filesHashed, pcWorker, wResult, wgCount,
       pcCloser, filePathsClosed, dirPathsClosed, cClosed, errcBuf, cNil,
       dirPathsNil, errcNil, hashesToPaths, discoveredDirs, finalWalkErr, ret,
       resultsConsumed, hashVars >>

passGhosts == << inodeInit, inodeAtStart, countAtStart >>

optVars == << optHardlink, optDryRun, digestErr, mainVersion >>

reporterVars == << signalled, reporterCancelled, pcReporter >>

\* the errors DigestAll can hand to Run
DigestErrs == {"nil", "Canceled", "DeadlineExceeded", "EACCES"}

\* what Run returns to main for the error DigestAll handed it
RunOutcome(err) ==
    Run([nilMap |-> err # "nil", duplicates |-> EmptyMap, dirs |-> << >>, err |-> err])

\* a main that links in dry-run mode as well
ShouldLinkIgnoresDryRun(hardlink, dryRun) == hardlink

\* `if *hardlink && !*dryRun`
ShouldLink(hardlink, dryRun) == hardlink /\ ~dryRun

\* a main that leaves the reporter's context alone after Run
CancelsReporterNever(version) == FALSE

\* part_005 calls cancelReporter() between app.Run and wg.Wait; main.go
\* hands the reporter the signal context itself and has no such call
CancelsReporter(version) == version = "part_005"

\* the reporter's `case <-ctx.Done()` is ready: its context is main's signal
\* context, or in part_005 a child of it that cancelReporter() cancels
ReporterCtxDone == signalled \/ reporterCancelled

\* SIGINT or SIGTERM arrives while main is in Run or in wg.Wait
Interrupt ==
    /\ pcApp \in {"run", "wait"}
    /\ ~signalled
    /\ signalled' = TRUE
    /\ UNCHANGED << fileByteMapDups, inode, linksCreatedCount, pcLink, gi, di, pass,
                    passGhosts, failedPasses, status, optVars, reporterCancelled,
                    pcReporter, pcApp, pipelineVars >>

\* app.Run returns (a Canceled error only after a signal); main goes on to
\* wg.Wait, in part_005 after cancelReporter()
MainRunReturned ==
    /\ pcApp = "run"
    /\ digestErr = "Canceled" => signalled
    /\ pcApp' = "wait"
    /\ reporterCancelled' = CancelsReporter(mainVersion)
    /\ UNCHANGED << fileByteMapDups, inode, linksCreatedCount, pcLink, gi, di, pass,
                    passGhosts, failedPasses, status, optVars, signalled, pcReporter,
                    pipelineVars >>

\* the reporter takes `case <-ctx.Done()`, prints its last line and returns
\* (wg.Done); its ticker case changes no state
ReporterExit ==
    /\ pcReporter = "running"
    /\ ReporterCtxDone
    /\ pcReporter' = "done"
    /\ UNCHANGED << fileByteMapDups, inode, linksCreatedCount, pcLink, gi, di, pass,
                    passGhosts, failedPasses, status, optVars, signalled,
                    reporterCancelled, pcApp, pipelineVars >>

\* main gets past wg.Wait: os.Exit on an error of Run, else go on
MainAfterRun ==
    /\ pcApp = "wait"
    /\ pcReporter = "done"
    /\ pcApp' = IF ExitCode(RunOutcome(digestErr)) = 130 THEN "exit130"
                ELSE IF ExitCode(RunOutcome(digestErr)) = 1 THEN "exit1"
                ELSE "afterRun"
    /\ UNCHANGED << fileByteMapDups, inode, linksCreatedCount, pcLink, gi, di, pass,
                    passGhosts, failedPasses, status, optVars, reporterVars, pipelineVars >>

\* main reports and ends: without a pass when it is not asked for, else
\* after the pass
MainFinish ==
    /\ pcApp = "afterRun"
    /\ IF ShouldLink(optHardlink, optDryRun) THEN pcLink = "done" ELSE pcLink = "idle"
    /\ pcApp' = "finished"
    /\ UNCHANGED << fileByteMapDups, inode, linksCreatedCount, pcLink, gi, di, pass,
                    passGhosts, failedPasses, status, optVars, reporterVars, pipelineVars >>

InitLink ==
    /\ fsTree = TreeEmpty
    /\ numWorkers = 1
    /\ hasher = "fn"
    /\ hashFails = {}
    /\ ctxErr = "nil"
    /\ ctxAtCall = "nil"
    /\ PipelineStart
    /\ HashIdle
    /\ fileByteMapDups \in DupGroupSets
    /\ inode \in InodeMaps(fileByteMapDups)
    /\ inodeInit = inode
    /\ inodeAtStart = inode
    /\ linksCreatedCount = 0
    /\ countAtStart = 0
    /\ pcLink = "idle"
    /\ gi = 1
    /\ di = 2
    /\ pass = 0
    /\ failedPasses = {}
    /\ status = [p \in Candidates(fileByteMapDups) |-> "unchecked"]
    /\ mainVersion \in {"main.go", "part_005"}
    /\ optHardlink \in (IF mainVersion = "part_005" THEN BOOLEAN ELSE {FALSE})
    /\ optDryRun \in BOOLEAN
    /\ digestErr \in DigestErrs
    /\ pcApp = "run"
    /\ signalled = FALSE
    /\ reporterCancelled = FALSE
    /\ pcReporter = "running"

\* hardlinkDuplicates is called: the first time, or again on the same groups
HardlinkCall ==
    /\ pcApp = "afterRun"
    /\ ShouldLink(optHardlink, optDryRun)
    /\ pcLink \in {"idle", "done"}
    /\ pass < MaxPasses
    /\ pass' = pass + 1
    /\ GoTo([pc |-> "check", gi |-> 1, di |-> 2])
    /\ inodeAtStart' = inode
    /\ countAtStart' = linksCreatedCount
    /\ status' = [p \in Candidates(fileByteMapDups) |-> "unchecked"]
    /\ UNCHANGED << fileByteMapDups, inode, linksCreatedCount, inodeInit,
                    failedPasses, optVars, reporterVars, pcApp, pipelineVars >>

\* alreadyLinked, err := areFilesHardLinked(originalPath, duplicatePath)
LinkCheck ==
    /\ pcLink = "check"
    /\ \E statFails \in BOOLEAN :
         LET r == areFilesHardLinked(inode, originalPath, duplicatePath, statFails)
         IN  IF r.err
             THEN FailHere("statFailed")
             ELSE IF r.same
             THEN /\ status' = [status EXCEPT ![duplicatePath] = "alreadyLinked"]
                  /\ GoTo(NextCandidate(fileByteMapDups, gi, di))
                  /\ UNCHANGED failedPasses
             ELSE /\ pcLink' = "remove"
                  /\ UNCHANGED << gi, di, status, failedPasses >>
    /\ UNCHANGED << fileByteMapDups, inode, linksCreatedCount, pass, passGhosts,
                    optVars, reporterVars, pcApp, pipelineVars >>

\* os.Remove(duplicatePath)
LinkRemove ==
    /\ pcLink = "remove"
    /\ \E removeFails \in BOOLEAN :
         LET target == RemoveTarget(originalPath, duplicatePath)
         IN  IF removeFails \/ inode[target] = 0
             THEN FailHere("removeFailed") /\ UNCHANGED inode
             ELSE /\ inode' = [inode EXCEPT ![target] = 0]
                  /\ pcLink' = "link"
                  /\ UNCHANGED << gi, di, status, failedPasses >>
    /\ UNCHANGED << fileByteMapDups, linksCreatedCount, pass, passGhosts, optVars,
                    reporterVars, pcApp, pipelineVars >>

\* os.Link(originalPath, duplicatePath), then the counter
LinkLink ==
    /\ pcLink = "link"
    /\ \E linkFails \in BOOLEAN :
         IF linkFails \/ inode[originalPath] = 0 \/ inode[duplicatePath] # 0
         THEN FailHere("linkFailed") /\ UNCHANGED << inode, linksCreatedCount >>
         ELSE /\ inode' = [inode EXCEPT ![duplicatePath] = inode[originalPath]]
              /\ linksCreatedCount' = CountAfterLink(linksCreatedCount)
              /\ status' = [status EXCEPT ![duplicatePath] = "linked"]
              /\ GoTo(NextCandidate(fileByteMapDups, gi, di))
              /\ UNCHANGED failedPasses
    /\ UNCHANGED << fileByteMapDups, pass, passGhosts, optVars, reporterVars, pcApp, pipelineVars >>

NextLink ==
    \/ Interrupt
    \/ MainRunReturned
    \/ ReporterExit
    \/ MainAfterRun
    \/ HardlinkCall
    \/ LinkCheck
    \/ LinkRemove
    \/ LinkLink
    \/ MainFinish

SpecLink == InitLink /\ [][NextLink]_vars

PassDone == pcLink = "done"

PassClean == pass \notin failedPasses

\* the candidates that did not denote their original's file object when the
\* current call began
NotYetLinked ==
    {p \in Candidates(fileByteMapDups) :
        inodeAtStart[p] # inodeAtStart[OriginalOf(fileByteMapDups, p)]}

\* C17 (as stated): a second call in a row on the same groups adds 0 to the
\* counter, every candidate being found already the same object as its
\* original and neither removed nor linked again.
C17_SecondPassAddsNothing ==
    (pass >= 2 /\ PassDone) =>
        /\ linksCreatedCount = countAtStart
        /\ \A p \in Candidates(fileByteMapDups) : status[p] = "alreadyLinked"

\* the candidates that denoted their original's file object when the current
\* call began
LinkedAtStart ==
    {p \in Candidates(fileByteMapDups) :
        /\ inodeAtStart[p] # 0
        /\ inodeAtStart[p] = inodeAtStart[OriginalOf(fileByteMapDups, p)]}

\* the candidates whose path was absent when the current call began
AbsentAtStart == {p \in Candidates(fileByteMapDups) : inodeAtStart[p] = 0}

\* C17 (amended): in a further call on the same groups, whatever happened in
\* the call before, a candidate that is already the same object as its
\* original is found so (unless its stat fails) and is neither removed nor
\* linked again; a candidate whose path the call before left absent fails
\* its check and stays absent; the counter grows by exactly the number of
\* candidates the call links, each of them a separate file when the call
\* began.  After a call without failure every candidate is the same object
\* as its original, so the further call adds 0.
C17_SecondPassLinksOnlySeparateFiles ==
    pass >= 2 =>
        /\ \A p \in LinkedAtStart :
              /\ status[p] \in {"unchecked", "alreadyLinked", "statFailed"}
              /\ inode[p] = inodeAtStart[p]
        /\ \A p \in AbsentAtStart :
              /\ status[p] \in {"unchecked", "statFailed"}
              /\ inode[p] = 0
        /\ \A p \in Candidates(fileByteMapDups) :
              status[p] = "alreadyLinked" => p \in LinkedAtStart
        /\ linksCreatedCount - countAtStart
              = Cardinality({p \in Candidates(fileByteMapDups) : status[p] = "linked"})
        /\ {p \in Candidates(fileByteMapDups) : status[p] = "linked"}
              \subseteq NotYetLinked \ AbsentAtStart
        /\ (pass - 1) \notin failedPasses =>
              /\ LinkedAtStart = Candidates(fileByteMapDups)
              /\ linksCreatedCount = countAtStart
              /\ inode = inodeAtStart
              /\ (PassDone /\ PassClean) =>
                    \A p \in Candidates(fileByteMapDups) : status[p] = "alreadyLinked"

\* a second call after a first one in which a remove failed on one candidate
\* and a link failed on another: the candidate the first call linked is
\* found linked, the one it left in place is linked now, the absent one
\* fails its check
C17_Witness ==
    /\ pass = 2 /\ PassDone /\ 1 \in failedPasses
    /\ \E p \in LinkedAtStart : status[p] = "alreadyLinked"
    /\ \E p \in Candidates(fileByteMapDups) : status[p] = "linked"
    /\ \E p \in AbsentAtStart : status[p] = "statFailed"
    /\ linksCreatedCount = countAtStart + 1

\* C18: whatever stat, remove or link fails, the first path of every group
\* is never removed: it exists and denotes the file object it denoted
\* before the pass.
C18_OriginalNeverRemoved ==
    \A g \in 1..Len(fileByteMapDups) :
        /\ inode[fileByteMapDups[g][1]] # 0
        /\ inode[fileByteMapDups[g][1]] = inodeInit[fileByteMapDups[g][1]]

C18_Witness ==
    /\ PassDone /\ pass = 1 /\ ~PassClean
    /\ fileByteMapDups = << <<1, 2, 3>> >>
    /\ status[2] = "linkFailed"
    /\ status[3] = "linked"
    /\ inode = (1 :> 1) @@ (2 :> 0) @@ (3 :> 1)

\* C19: a failure of the check, of the remove or of the link for one
\* candidate never ends the pass: when the pass ends, every candidate of
\* every group has been processed to a terminal state.
C19_FailureDoesNotEndPass ==
    PassDone =>
        \A p \in Candidates(fileByteMapDups) :
            status[p] \in {"alreadyLinked", "statFailed", "removeFailed",
                           "linkFailed", "linked"}

C19_Witness ==
    /\ PassDone /\ pass = 1
    /\ fileByteMapDups = << <<1, 2, 3>>, <<4, 5>> >>
    /\ status[2] = "statFailed"
    /\ status[3] = "removeFailed"
    /\ status[5] = "linked"

\* C20: after a pass in which no stat, remove or link failed, every path of
\* every group denotes the file object of the group's first path, and the
\* counter has grown by the number of candidates that were not already the
\* same object as their original.
C20_CleanPassLinksAll ==
    (PassDone /\ PassClean) =>
        /\ \A p \in LinkPaths(fileByteMapDups) :
              /\ inode[p] # 0
              /\ inode[p] = inode[OriginalOf(fileByteMapDups, p)]
        /\ linksCreatedCount - countAtStart = Cardinality(NotYetLinked)

C20_Witness ==
    /\ PassDone /\ PassClean /\ pass = 1
    /\ fileByteMapDups = << <<1, 2, 3>> >>
    /\ inodeInit = (1 :> 1) @@ (2 :> 1) @@ (3 :> 3)
    /\ linksCreatedCount = 1
    /\ status[2] = "alreadyLinked"
    /\ status[3] = "linked"

\* ------------------------------------------------------ main and the pass
\* C21: nothing is removed or linked before Run has returned; the pass runs
\* only after Run returned nil and only with -hardlink and without
\* -dry-run; after a cancellation or an error, or in dry-run mode, the
\* file system is as it was.
C21_PassOnlyAfterNilRun ==
    /\ (pcLink # "idle" \/ pass # 0 \/ inode # inodeInit) =>
          /\ pcApp \in {"afterRun", "finished"}
          /\ RunOutcome(digestErr).err = "nil"
          /\ optHardlink
          /\ ~optDryRun
    /\ (pcApp \in {"run", "wait", "exit130", "exit1"} \/ optDryRun \/ ~optHardlink
            \/ digestErr # "nil") =>
          /\ inode = inodeInit
          /\ linksCreatedCount = 0
          /\ pcLink = "idle"

C21_Witness ==
    /\ pcApp = "finished"
    /\ optHardlink /\ ~optDryRun /\ digestErr = "nil"
    /\ fileByteMapDups = << <<1, 2>> >>
    /\ inodeInit = (1 :> 1) @@ (2 :> 2)
    /\ inode = (1 :> 1) @@ (2 :> 1)

\* ------------------------------------------------------ order inside groups
\* the index of the call in which WalkDir hands the path to the walk function
WalkPos(tree, p) ==
    CHOOSE i \in 1..Len(WalkDir(tree)) :
        WalkDir(tree)[i].path = p /\ ~WalkDir(tree)[i].err

InDiscoveryOrder(tree, paths) ==
    \A i, j \in 1..Len(paths) :
        i < j => WalkPos(tree, paths[i]) < WalkPos(tree, paths[j])

IsPrefix(s, t) == Len(s) <= Len(t) /\ SubSeq(t, 1, Len(s)) = s

\* C22 (as stated): for any worker count W >= 1 each group lists its paths
\* in discovery order, so its first path is the earliest-discovered file
\* with that digest.
C22_GroupsInDiscoveryOrder ==
    ValidConfig =>
        \A h \in DOMAIN hashesToPaths : InDiscoveryOrder(fsTree, hashesToPaths[h])

\* C22 (amended): for any worker count W >= 1 each group lists its paths in
\* the order in which the aggregator received their results: a step leaves
\* every group as it was or appends one path at its end, so the first path
\* of a group is the first one aggregated with that digest.
C22_GroupsInAggregationOrder ==
    [][\A h \in DOMAIN hashesToPaths :
          /\ h \in DOMAIN hashesToPaths'
          /\ IsPrefix(hashesToPaths[h], hashesToPaths'[h])
          /\ Len(hashesToPaths'[h]) <= Len(hashesToPaths[h]) + 1]_vars

C22_Witness ==
    /\ numWorkers = 2 /\ hasher = "fn" /\ ctxErr = "nil"
    /\ AllAggregated
    /\ fsTree = TreeTriple
    /\ \E h \in DOMAIN hashesToPaths :
          /\ Len(hashesToPaths[h]) = 3
          /\ ~InDiscoveryOrder(fsTree, hashesToPaths[h])

\* C23: with W = 1 and no cancellation the paths of every group are listed
\* in the order in which the walker emitted them.
C23_SerialRunKeepsWalkOrder ==
    (numWorkers = 1 /\ hasher = "fn" /\ ctxErr = "nil") =>
        \A h \in DOMAIN hashesToPaths : InDiscoveryOrder(fsTree, hashesToPaths[h])

C23_Witness ==
    /\ numWorkers = 1 /\ hasher = "fn" /\ ctxErr = "nil"
    /\ AllAggregated
    /\ fsTree = TreeTriple
    /\ \E h \in DOMAIN hashesToPaths : hashesToPaths[h] = << 2, 3, 4 >>

\* ---------------------------------------------------------- pooled hashers
MaxFileLen == 2

MaxHashCalls == 2

\* the contents a file may have
FileBytes == UNION {[1..n -> 0..1] : n \in 0..MaxFileLen}

\* md5.New(): the state of a hasher that has absorbed nothing
HashNew == 7

\* hasher.Write: the state after one more byte
HashWrite(h, b) == (h * 31 + b + 1) % 251

\* a Reset that leaves the hasher as it is
ResetKeepsState(h) == h

\* hasher.Reset()
Reset(h) == HashNew

\* hasher.Sum(nil)
HashSum(h) == << h >>

\* the digest of a sequence of bytes, absorbed by a new hasher
RECURSIVE Absorb(_, _)
Absorb(h, bytes) ==
    IF bytes = << >> THEN h ELSE Absorb(HashWrite(h, Head(bytes)), Tail(bytes))

DigestOf(bytes) == HashSum(Absorb(HashNew, bytes))

\* the pool is a multiset: it is kept as a sequence in increasing order
PoolWith(pool, h) ==
    LET k == Cardinality({i \in 1..Len(pool) : pool[i] <= h})
    IN  SubSeq(pool, 1, k) \o << h >> \o SubSeq(pool, k + 1, Len(pool))

RemoveAt(s, i) == SubSeq(s, 1, i - 1) \o SubSeq(s, i + 1, Len(s))

scanVars ==
    << fsTree, numWorkers, hasher, hashFails, ctxAtCall, ctxErr, pcMain, pcWalker,
       walkIdx, walkRet, filesFound, filesHashed, pcWorker, wResult, wgCount,
       pcCloser, filePathsClosed, dirPathsClosed, cClosed, errcBuf, cNil,
       dirPathsNil, errcNil, hashesToPaths, discoveredDirs, finalWalkErr, ret,
       resultsConsumed >>

InitHash ==
    /\ fsTree = TreeEmpty
    /\ numWorkers = 1
    /\ hasher = "fn"
    /\ hashFails = {}
    /\ ctxErr = "nil"
    /\ ctxAtCall = "nil"
    /\ PipelineStart
    /\ LinkIdle
    /\ HashIdle

\* h := md5Pool.Get().(hash.Hash): a hasher of the pool or a new one; then
\* os.Open(path), which may fail
PoolGet(u) ==
    /\ hw[u].pc = "idle"
    /\ hashCalls < MaxHashCalls
    /\ hashCalls' = hashCalls + 1
    /\ \E bytes \in FileBytes, openFails \in BOOLEAN :
         \/ /\ hw' = [hw EXCEPT ![u] = [pc |-> IF openFails THEN "put" ELSE "reset",
                                        h |-> HashNew, file |-> bytes, pos |-> 1,
                                        sum |-> << >>, err |-> openFails]]
            /\ UNCHANGED md5Pool
         \/ \E i \in 1..Len(md5Pool) :
              /\ hw' = [hw EXCEPT ![u] = [pc |-> IF openFails THEN "put" ELSE "reset",
                                          h |-> md5Pool[i], file |-> bytes, pos |-> 1,
                                          sum |-> << >>, err |-> openFails]]
              /\ md5Pool' = RemoveAt(md5Pool, i)
    /\ UNCHANGED << scanVars, linkVars >>

\* getReaderHash: hasher.Reset()
HasherReset(u) ==
    /\ hw[u].pc = "reset"
    /\ hw' = [hw EXCEPT ![u].h = Reset(hw[u].h), ![u].pc = "copy"]
    /\ UNCHANGED << md5Pool, hashCalls, scanVars, linkVars >>

\* io.CopyBuffer: one more byte written to the hasher, a read error, or the
\* end of the file and hasher.Sum(nil)
HasherCopy(u) ==
    /\ hw[u].pc = "copy"
    /\ \/ /\ hw[u].pos <= Len(hw[u].file)
          /\ hw' = [hw EXCEPT ![u].h = HashWrite(hw[u].h, hw[u].file[hw[u].pos]),
                              ![u].pos = hw[u].pos + 1]
       \/ /\ hw[u].pos <= Len(hw[u].file)
          /\ hw' = [hw EXCEPT ![u].err = TRUE, ![u].pc = "put"]
       \/ /\ hw[u].pos > Len(hw[u].file)
          /\ hw' = [hw EXCEPT ![u].sum = HashSum(hw[u].h), ![u].pc = "put"]
    /\ UNCHANGED << md5Pool, hashCalls, scanVars, linkVars >>

\* defer md5Pool.Put(h): the hasher goes back in the state it is in
PoolPut(u) ==
    /\ hw[u].pc = "put"
    /\ md5Pool' = PoolWith(md5Pool, hw[u].h)
    /\ hw' = [hw EXCEPT ![u] = NoCall]
    /\ UNCHANGED << hashCalls, scanVars, linkVars >>

NextHash ==
    \E u \in HashUsers : PoolGet(u) \/ HasherReset(u) \/ HasherCopy(u) \/ PoolPut(u)

SpecHash == InitHash /\ [][NextHash]_vars

\* C24: the digest a pooled hasher returns for a file depends only on the
\* file's bytes, whatever the hasher absorbed before and whoever used it
\* before: every digest returned is the digest a new hasher gives.
C24_DigestDependsOnBytesOnly ==
    \A u \in HashUsers :
        (hw[u].pc = "put" /\ ~hw[u].err) =>
            hw[u].sum = DigestOf(hw[u].file)

\* the hasher one goroutine put back, in the state its file left it in, was
\* taken from the pool by the other goroutine and gives the digest of <<0>>
C24_Witness ==
    /\ hw[1].pc = "idle"
    /\ hw[2].pc = "put" /\ hw[2].file = << 0 >> /\ ~hw[2].err
    /\ hw[2].sum = DigestOf(<< 0 >>)
    /\ md5Pool = << >>
    /\ hashCalls = 2

\* ------------------------------------------------------- no double counting
\* the number of paths stored in the groups of the digests in S
RECURSIVE PathsStored(_, _)
PathsStored(h2p, S) ==
    IF S = {} THEN 0
    ELSE LET h == CHOOSE x \in S : TRUE
         IN  Len(h2p[h]) + PathsStored(h2p, S \ {h})

\* no path is at two places of the table
NoPathTwice(h2p) ==
    \A h1, h2 \in DOMAIN h2p : \A i \in 1..Len(h2p[h1]) : \A j \in 1..Len(h2p[h2]) :
        h2p[h1][i] = h2p[h2][j] => (h1 = h2 /\ i = j)

\* C25: in every reachable state, cancelled or not, each file path is at
\* most once in the aggregator's table and filesHashed is the number of
\* paths stored in the table.
C25_NothingCountedTwice ==
    /\ NoPathTwice(hashesToPaths)
    /\ filesHashed = PathsStored(hashesToPaths, DOMAIN hashesToPaths)

C25_Witness ==
    /\ ctxErr = "Canceled" /\ ctxAtCall = "nil"
    /\ fsTree = TreeHappy
    /\ hashFails # {}
    /\ filesHashed = 2
    /\ Cardinality(DOMAIN hashesToPaths) = 2

\* ---------------------------------------------------------- reportSummary
\* Stand-in for the modulus 2^64 of the unsigned counter (TLC's integers are
\* narrower); the counters of the model stay far below either.
WordModulus == 2^30

\* len(paths) - 1
GroupExtra(paths) == Len(paths) - 1

\* for _, paths := range d.fileByteMapDups { totalDuplicates += len(paths) - 1 }
RECURSIVE TotalDuplicates(_, _)
TotalDuplicates(dups, S) ==
    IF S = {} THEN 0
    ELSE LET h == CHOOSE x \in S : TRUE
         IN  GroupExtra(dups[h]) + TotalDuplicates(dups, S \ {h})

\* uniqueFiles := totalFilesHashed - uint64(totalDuplicates)
UniqueFiles(totalFilesHashed, dups) ==
    (totalFilesHashed - TotalDuplicates(dups, DOMAIN dups)) % WordModulus

\* Run returned nil: DigestAll returned with a nil error and Run has stored
\* the tables it handed back
RunCompleted == Returned /\ Run(ret).err = "nil"

\* ------------------------------------------------------ areFilesHardLinked
\* C27: areFilesHardLinked returns an error when one of the paths cannot be
\* stat'ed, and otherwise true exactly when both paths denote the same file
\* object (the separate files of a group, of identical content, give
\* false); the check changes nothing on the file system.
C27_SameObjectCheck ==
    [][pcLink = "check" =>
          LET o == fileByteMapDups[gi][1]
              d == fileByteMapDups[gi][di]
          IN  /\ inode' = inode
              /\ linksCreatedCount' = linksCreatedCount
              /\ (inode[o] = 0 \/ inode[d] = 0) => status'[d] = "statFailed"
              /\ status'[d] # "statFailed" =>
                    /\ status'[d] = "alreadyLinked" <=> inode[o] = inode[d]
                    /\ (pcLink' = "remove" /\ status'[d] = "unchecked")
                          <=> inode[o] # inode[d]
              /\ \A stat \in BOOLEAN :
                    LET r == areFilesHardLinked(inode, o, d, stat)
                    IN  /\ r.err <=> (stat \/ inode[o] = 0 \/ inode[d] = 0)
                        /\ r.same <=> (~r.err /\ inode[o] = inode[d])]_vars

\* a second pass finds one candidate absent (its link failed in the first
\* pass) and the other one already linked
C27_Witness ==
    /\ pass = 2 /\ PassDone
    /\ fileByteMapDups = << <<1, 2, 3>> >>
    /\ inodeInit = (1 :> 1) @@ (2 :> 2) @@ (3 :> 3)
    /\ inode = (1 :> 1) @@ (2 :> 0) @@ (3 :> 1)
    /\ status[2] = "statFailed"
    /\ status[3] = "alreadyLinked"

\* ------------------------------------------------- the walker and the signal
\* the walker takes a step
WalkerMoves == << pcWalker, walkIdx, walkRet, filesFound >>' # << pcWalker, walkIdx, walkRet, filesFound >>

\* C28 (as stated): once the cancellation signal is set the walker emits no
\* further file or directory path and increments filesFound no further,
\* and the outcome WalkDir then returns is the cancellation.
C28_NoEmissionAfterSignal ==
    [][ctxErr # "nil" =>
          /\ filesFound' = filesFound
          /\ walkIdx' = walkIdx
          /\ discoveredDirs' = discoveredDirs
          /\ (pcWalker # "sendErr" /\ pcWalker' = "sendErr") => walkRet' = ctxErr]_vars

\* C28 (amended): a call of the walk function that begins after the signal
\* was set returns the cancellation at once; from then on the walker emits
\* no file or directory path and increments filesFound no further, and the
\* outcome it puts on errc is the cancellation. A path whose check passed
\* before the signal can still be emitted.
C28_NoEmissionAfterObservedSignal ==
    [][/\ (pcWalker = "visit" /\ ctxErr # "nil" /\ WalkerMoves) =>
              /\ pcWalker' = "sendErr"
              /\ walkRet' = ctxErr
              /\ filesFound' = filesFound
              /\ walkIdx' = walkIdx
       /\ walkRet # "nil" =>
              /\ walkRet = ctxErr
              /\ walkRet' = walkRet
              /\ filesFound' = filesFound
              /\ walkIdx' = walkIdx
              /\ discoveredDirs' = discoveredDirs
              /\ pcWalker' \in {"sendErr", "closeDirs", "closeFiles", "done"}
              /\ (pcWalker = "sendErr" /\ pcWalker' # "sendErr") =>
                    errcBuf' = << walkRet >>]_vars

\* the walk was cut short: the walker observed the signal after it had
\* counted one of the three files and has delivered the cancellation
C28_Witness ==
    /\ fsTree = TreeTriple
    /\ ctxAtCall = "nil" /\ ctxErr = "Canceled"
    /\ walkRet = "Canceled"
    /\ pcWalker = "done"
    /\ filesFound = 1
    /\ finalWalkErr = "Canceled"

\* ------------------------------------------------ the walk-outcome source
\* the aggregator has received the outcome the walker put on errc
OutcomeReceived == pcWalker \in {"closeDirs", "closeFiles", "done"} /\ errcBuf = << >>

\* C29: the walker delivers exactly one outcome; once the aggregator has
\* received it the walk-outcome source counts as exhausted, so the loop is
\* over as soon as the result stream and the directory stream are closed
\* and drained too.
C29_OutcomeSourceExhausted ==
    /\ Len(errcBuf) <= 1
    /\ (ValidConfig /\ ctxErr = "nil" /\ pcMain = "loop" /\ OutcomeReceived) => errcNil
    /\ ~(ValidConfig /\ ctxErr = "nil" /\ pcMain = "loop" /\ OutcomeReceived
            /\ cNil /\ dirPathsNil)

\* C30: in every fair execution, also when the context is cancelled while
\* the walker is blocked sending a file path and every worker has exited,
\* the walker goroutine terminates: the pipeline comes to rest only with
\* both path channels closed and the walk outcome delivered.
C30_WalkerTerminates ==
    (ValidConfig /\ Quiescent) =>
        /\ pcWalker = "done"
        /\ filePathsClosed
        /\ dirPathsClosed
        /\ (errcBuf # << >> \/ OutcomeReceived)

\* ------------------------------------------- a worker and the cancellation
\* C31 (as stated): a worker that is waiting to emit a result when the
\* cancellation signal fires terminates, and that result is discarded: it
\* is never delivered to the aggregator and never counted in filesHashed.
C31_ResultDroppedAfterSignal ==
    [][\A w \in Workers :
          (pcWorker[w] = "send" /\ ctxErr # "nil") =>
              /\ pcWorker'[w] \in {"send", "done"}
              /\ \A h \in DOMAIN hashesToPaths' :
                    wResult[w].path \notin GroupSet(hashesToPaths', h)]_vars

\* C31 (amended): a worker that is waiting to emit a result when the
\* context is cancelled never blocks: its cancellation branch can be taken
\* at once. When it takes that branch the result is discarded, the table
\* and filesHashed stay as they are and the worker never sends again; the
\* aggregator may instead receive the result first, which is then
\* aggregated once.
C31_WorkerLeavesOnSignal ==
    [][\A w \in Workers :
          /\ (Running /\ pcWorker[w] = "send" /\ ctxErr # "nil") =>
                ENABLED DigesterCtxDone(w)
          /\ (pcWorker[w] = "send" /\ pcWorker'[w] = "done") =>
                /\ ctxErr # "nil"
                /\ filesHashed' = filesHashed
                /\ hashesToPaths' = hashesToPaths
          /\ (pcWorker[w] = "send" /\ pcWorker'[w] = "recv") =>
                /\ filesHashed' = HashedAfter(wResult[w], filesHashed)
                /\ hashesToPaths' = TableAfter(wResult[w], hashesToPaths)
          /\ pcWorker[w] = "done" => pcWorker'[w] = "done"]_vars

\* a worker has left on the signal with a digest in hand that is in no group
C31_Witness ==
    /\ ctxErr # "nil"
    /\ \E w \in Workers :
          /\ pcWorker[w] = "done"
          /\ wResult[w].sum # << >>
          /\ \A h \in DOMAIN hashesToPaths :
                wResult[w].path \notin GroupSet(hashesToPaths, h)
    /\ filesHashed = 1

\* ------------------------------------------------------- the worker pool
\* the digesters that hold a path: hashing it or waiting to send its result
Holding == {w \in Workers : pcWorker[w] \in {"hash", "send"}}

\* C32: in every reachable state at most W invocations of the digest
\* function are in progress, and each worker holds at most one path: only
\* the W started digesters ever hold one.
C32_AtMostWInProgress ==
    numWorkers >= 0 =>
        /\ Cardinality({w \in Workers : pcWorker[w] = "hash"}) <= numWorkers
        /\ Cardinality(Holding) <= numWorkers
        /\ \A w \in Workers : w > numWorkers => pcWorker[w] = "idle"

C32_Witness ==
    /\ numWorkers = 2
    /\ \A w \in 1..2 : pcWorker[w] = "hash"
    /\ wResult[1].path # wResult[2].path

\* C35: on a run without cancellation every path the walker emits is
\* received by one worker, hashed once and gives one result that the
\* aggregator consumes: once all channels are drained every counted file
\* has been consumed, each file that hashed without error is once in the
\* table, and filesHashed plus the number of error results is filesFound.
C35_EveryPathConsumedOnce ==
    (ValidConfig /\ ctxErr = "nil" /\ Drained) =>
        /\ resultsConsumed = filesFound
        /\ filesHashed + Cardinality(hashFails \cap VisibleFiles(fsTree)) = filesFound
        /\ NoPathTwice(hashesToPaths)
        /\ UNION {GroupSet(hashesToPaths, h) : h \in DOMAIN hashesToPaths}
              = VisibleFiles(fsTree) \ hashFails

C35_Witness ==
    /\ ValidConfig /\ ctxErr = "nil" /\ Drained
    /\ numWorkers = 2
    /\ fsTree = TreeHappy
    /\ Cardinality(hashFails) = 1
    /\ filesFound = 3
    /\ filesHashed = 2

\* C36: no goroutine sends on a closed channel and no channel is closed
\* twice: c is closed once, after all W workers have returned; filePaths
\* and dirPaths are closed once, by the walker, after its last send.
C36_ChannelsClosedOnce ==
    [][/\ \A w \in Workers : pcWorker[w] = "send" => ~cClosed
       /\ pcWalker = "sendFile" => ~filePathsClosed
       /\ pcWalker = "sendDir" => ~dirPathsClosed
       /\ pcWalker = "sendErr" => ~errcClosed
       /\ (pcCloser = "wait" /\ pcCloser' = "done") =>
             /\ ~cClosed /\ cClosed'
             /\ \A w \in Workers : Started(w, numWorkers) => pcWorker[w] = "done"
       /\ (pcWalker = "closeDirs" /\ pcWalker' # "closeDirs") =>
             ~dirPathsClosed /\ dirPathsClosed'
       /\ (pcWalker = "closeFiles" /\ pcWalker' # "closeFiles") =>
             ~filePathsClosed /\ filePathsClosed'
       /\ cClosed => (cClosed' /\ pcCloser = "done")
       /\ dirPathsClosed => (dirPathsClosed' /\ pcWalker \in {"closeFiles", "done"})
       /\ filePathsClosed => (filePathsClosed' /\ pcWalker = "done")]_vars

C36_Witness ==
    /\ numWorkers = 2 /\ hasher = "fn"
    /\ cClosed /\ filePathsClosed /\ dirPathsClosed
    /\ fsTree = TreeHappy
    /\ resultsConsumed = 3

\* C37: in every reachable state filesFound minus the number of results the
\* aggregator has consumed is at most W + 1: the walker is at most one path
\* ahead of the workers and each worker holds at most one path.
C37_WalkerAtMostOneAhead ==
    numWorkers >= 0 => filesFound - resultsConsumed <= numWorkers + 1

C37_Witness ==
    /\ numWorkers = 1 /\ hasher = "fn"
    /\ filesFound - resultsConsumed = 2
    /\ pcWalker = "sendFile"
    /\ pcWorker[1] = "send"

\* ------------------------------------------- the steps of one candidate
\* C33: for each candidate the steps occur only in the order same-object
\* check, remove, link: remove is attempted only after the check answered
\* "not the same object" without error, link only after the remove succeeded,
\* the counter is incremented only after the link succeeded; a candidate
\* whose remove succeeded and whose link failed ends with its path absent and
\* the counter unchanged.
C33_CheckRemoveLinkOrder ==
    [][/\ pcLink' = "remove" =>
             /\ pcLink = "check"
             /\ inode[originalPath] # 0 /\ inode[duplicatePath] # 0
             /\ ~SameFile(inode[originalPath], inode[duplicatePath])
             /\ gi' = gi /\ di' = di /\ inode' = inode
       /\ pcLink' = "link" =>
             /\ pcLink = "remove"
             /\ gi' = gi /\ di' = di
             /\ inode[duplicatePath] # 0
             /\ inode' = [inode EXCEPT ![duplicatePath] = 0]
       /\ inode' # inode => pcLink \in {"remove", "link"}
       /\ linksCreatedCount' # linksCreatedCount =>
             /\ pcLink = "link"
             /\ inode[duplicatePath] = 0
             /\ inode'[duplicatePath] = inode[originalPath]
             /\ inode[originalPath] # 0
             /\ status'[duplicatePath] = "linked"
             /\ linksCreatedCount' = linksCreatedCount + 1
       /\ (pcLink = "link" /\ status'[duplicatePath] = "linkFailed") =>
             /\ inode'[duplicatePath] = 0
             /\ linksCreatedCount' = linksCreatedCount
       /\ \A p \in Candidates(fileByteMapDups) :
             status[p] = "linkFailed" => inode[p] = 0]_vars

C33_Witness ==
    /\ PassDone
    /\ \E p \in Candidates(fileByteMapDups) :
         /\ status[p] = "linkFailed"
         /\ inodeAtStart[p] # 0
         /\ inode[p] = 0
    /\ \E q \in Candidates(fileByteMapDups) : status[q] = "linked"
    /\ linksCreatedCount = countAtStart + 1

\* ------------------------------- the aggregator and the promotion rule
\* hashesToPaths after the aggregation loop has received, in this order, the
\* successful results of the paths of `order`
RECURSIVE AggregateFrom(_, _, _)
AggregateFrom(h2p, fileMap, order) ==
    IF Len(order) = 0 THEN h2p
    ELSE AggregateFrom(TableAfter([path |-> order[1], sum |-> fileMap[order[1]],
                                   err |-> FALSE], h2p),
                       fileMap,
                       [i \in 1..(Len(order) - 1) |-> order[i + 1]])

\* the orders of arrival that build the table h2p
ArrivalOrders(fileMap, h2p) ==
    {o \in RangeOrders(DOMAIN fileMap) : AggregateFrom(EmptyMap, fileMap, o) = h2p}

\* C34: for any sequence of successful digest results the aggregator's
\* table (append every path under its digest, then keep the digests with at
\* least two paths) equals the table the promotion rule builds from the same
\* sequence, the order of the paths inside each group included.
C34_AggregatorEqualsPromotionRule ==
    LET fileMap == FileMap(fsTree, hashesToPaths)
    IN  /\ \A order \in RangeOrders(DOMAIN fileMap) :
              Duplicates(AggregateFrom(EmptyMap, fileMap, order))
                  = findDuplicates(fileMap, order)
        /\ ArrivalOrders(fileMap, hashesToPaths) # {}
        /\ \A order \in ArrivalOrders(fileMap, hashesToPaths) :
              findDuplicates(fileMap, order) = Duplicates(hashesToPaths)

C34_Witness ==
    /\ AllAggregated
    /\ numWorkers = 2
    /\ \E h \in DOMAIN hashesToPaths :
         /\ Len(hashesToPaths[h]) >= 2
         /\ WalkPos(fsTree, hashesToPaths[h][1]) > WalkPos(fsTree, hashesToPaths[h][2])
    /\ \E h \in DOMAIN hashesToPaths : Len(hashesToPaths[h]) = 1

\* ------------------------------------------- main and the progress reporter
\* main is blocked in wg.Wait and no signal has been delivered
WaitingUnsignalled == pcApp = "wait" /\ ~signalled /\ pcReporter = "running"

\* C38: after Run has returned and no interrupt signal has been delivered,
\* the progress reporter can exit, so that main gets past its wait on the
\* reporter: the program finishes without needing an external signal.
C38_FinishesWithoutSignal ==
    WaitingUnsignalled => ENABLED ReporterExit

\* C38, for the main of part_005, which cancels the reporter's context
\* before it waits
C38_Part005FinishesWithoutSignal ==
    (mainVersion = "part_005" /\ WaitingUnsignalled) => ENABLED ReporterExit

C38_Part005Witness ==
    /\ mainVersion = "part_005"
    /\ ~signalled
    /\ pcReporter = "done"
    /\ pcApp = "finished"

\* ------------------------------------- DigestAll that drains errc on cancel
\* The DigestAll of part_003: walkFiles, the digesters and the closer are as
\* above; the loop keeps the flags dirPathsClosed, resultsClosed and
\* errcClosed (held here in dirPathsNil, cNil and errcNil) instead of setting
\* the channels to nil, and has a fourth case, `<-ctx.Done()`, which receives
\* once from errc and returns.  The map m it builds is FileMap of
\* hashesToPaths.  pcMain has the further value "drainErrc": in `<-errc`.

\* trees whose every entry can be read: on these filepath.Walk makes the
\* calls of the walk function that WalkDir makes
ReadableTrees == {TreeHappy, TreeTriple, TreeEmpty, TreeLink}

\* a call that passes the checks of DigestAll (hasher, numWorkers)
InitDrain ==
    /\ fsTree \in ReadableTrees
    /\ numWorkers \in 1..MaxWorkers
    /\ hasher = "fn"
    /\ hashFails \in {S \in SUBSET RegularFiles(fsTree) : Cardinality(S) <= MaxHashErrs}
    /\ ctxErr \in {"nil", "Canceled", "DeadlineExceeded"}
    /\ ctxAtCall = ctxErr
    /\ LinkIdle
    /\ HashIdle
    /\ PipelineStart

\* return m, discoveredDirs, err
DrainReturn(err, h2p, dirs) ==
    [nilMap |-> FALSE, duplicates |-> h2p, dirs |-> dirs, err |-> err]

\* `for !dirPathsClosed || !resultsClosed || !errcClosed`, and the returns
\* after the loop
DrainEndIteration(cn, dn, en, h2p, dirs, walkErr) ==
    IF LoopDone(cn, dn, en)
    THEN /\ pcMain' = "returned"
         /\ ret' = DrainReturn(walkErr, h2p, dirs)
    ELSE /\ pcMain' = "loop"
         /\ ret' = ret

\* `case r, ok := <-c` with ok
DrainAggResult(w) ==
    /\ pcMain = "loop"
    /\ pcWorker[w] = "send"
    /\ filesHashed' = HashedAfter(wResult[w], filesHashed)
    /\ hashesToPaths' = TableAfter(wResult[w], hashesToPaths)
    /\ resultsConsumed' = resultsConsumed + 1
    /\ pcWorker' = [pcWorker EXCEPT ![w] = "recv"]
    /\ DrainEndIteration(cNil, dirPathsNil, errcNil, hashesToPaths', discoveredDirs,
                         finalWalkErr)
    /\ UNCHANGED << inputVars, ctxErr, walkerVars, filesFound, wResult, wgCount,
                    pcCloser, chanVars, cNil, dirPathsNil, errcNil,
                    discoveredDirs, finalWalkErr >>

\* `case r, ok := <-c` with !ok: resultsClosed = true
DrainAggResultsClosed ==
    /\ pcMain = "loop"
    /\ cClosed
    /\ cNil' = TRUE
    /\ DrainEndIteration(TRUE, dirPathsNil, errcNil, hashesToPaths, discoveredDirs,
                         finalWalkErr)
    /\ UNCHANGED << resultsConsumed, inputVars, ctxErr, walkerVars, filesFound,
                    filesHashed, workerVars, pcCloser, chanVars, dirPathsNil, errcNil,
                    hashesToPaths, discoveredDirs, finalWalkErr >>

\* `case dirPath, ok := <-dirPaths` with ok
DrainAggDirPath ==
    /\ pcMain = "loop"
    /\ pcWalker = "sendDir"
    /\ discoveredDirs' = Append(discoveredDirs, WalkDir(fsTree)[walkIdx].path)
    /\ walkIdx' = walkIdx + 1
    /\ pcWalker' = AfterCall(walkIdx)
    /\ DrainEndIteration(cNil, dirPathsNil, errcNil, hashesToPaths, discoveredDirs',
                         finalWalkErr)
    /\ UNCHANGED << resultsConsumed, inputVars, ctxErr, walkRet, filesFound,
                    filesHashed, workerVars, pcCloser, chanVars, cNil, dirPathsNil,
                    errcNil, hashesToPaths, finalWalkErr >>

\* `case dirPath, ok := <-dirPaths` with !ok: dirPathsClosed = true
DrainAggDirPathsClosed ==
    /\ pcMain = "loop"
    /\ dirPathsClosed
    /\ dirPathsNil' = TRUE
    /\ DrainEndIteration(cNil, TRUE, errcNil, hashesToPaths, discoveredDirs,
                         finalWalkErr)
    /\ UNCHANGED << resultsConsumed, inputVars, ctxErr, walkerVars, filesFound,
                    filesHashed, workerVars, pcCloser, chanVars, cNil, errcNil,
                    hashesToPaths, discoveredDirs, finalWalkErr >>

\* `case walkErr, ok := <-errc`: errc is never closed, so ok; errcClosed = true
DrainAggWalkErr ==
    /\ pcMain = "loop"
    /\ errcBuf # << >>
    /\ finalWalkErr' = Head(errcBuf)
    /\ errcBuf' = Tail(errcBuf)
    /\ errcNil' = TRUE
    /\ DrainEndIteration(cNil, dirPathsNil, TRUE, hashesToPaths, discoveredDirs,
                         finalWalkErr')
    /\ UNCHANGED << resultsConsumed, inputVars, ctxErr, walkerVars, filesFound,
                    filesHashed, workerVars, pcCloser, filePathsClosed, dirPathsClosed,
                    cClosed, cNil, dirPathsNil, hashesToPaths, discoveredDirs >>

\* `case <-ctx.Done()`: the aggregator goes to `<-errc`
DrainAggCtxDone ==
    /\ pcMain = "loop"
    /\ CtxDone(ctxErr)
    /\ pcMain' = "drainErrc"
    /\ UNCHANGED << inputVars, ctxErr, walkerVars, filesFound, filesHashed,
                    workerVars, pcCloser, chanVars, aggVars >>

\* `<-errc` completes; return m, discoveredDirs, ctx.Err()
DrainErrcReceived ==
    /\ pcMain = "drainErrc"
    /\ errcBuf # << >>
    /\ errcBuf' = Tail(errcBuf)
    /\ pcMain' = "returned"
    /\ ret' = DrainReturn(ctxErr, hashesToPaths, discoveredDirs)
    /\ UNCHANGED << inputVars, ctxErr, walkerVars, filesFound, filesHashed,
                    workerVars, pcCloser, filePathsClosed, dirPathsClosed, cClosed,
                    cNil, dirPathsNil, errcNil, hashesToPaths, discoveredDirs,
                    finalWalkErr, resultsConsumed >>

\* the steps the goroutines of this DigestAll can take by themselves
DrainStep ==
    \/ CallWalkFiles
    \/ StartWorkers
    \/ WalkerVisit
    \/ WalkerSendErr
    \/ WalkerCloseDirPaths
    \/ WalkerCloseFilePaths
    \/ \E w \in Workers : DigesterReceive(w)
    \/ \E w \in Workers : DigesterHash(w)
    \/ \E w \in Workers : DigesterCtxDone(w)
    \/ \E w \in Workers : DigesterRangeEnd(w)
    \/ CloserClose
    \/ \E w \in Workers : DrainAggResult(w)
    \/ DrainAggResultsClosed
    \/ DrainAggDirPath
    \/ DrainAggDirPathsClosed
    \/ DrainAggWalkErr
    \/ DrainAggCtxDone
    \/ DrainErrcReceived

NextDrain ==
    \/ Cancel
    \/ CallWalkFiles
    \/ StartWorkers
    \/ WalkerVisit
    \/ WalkerSendErr
    \/ WalkerCloseDirPaths
    \/ WalkerCloseFilePaths
    \/ \E w \in Workers : DigesterReceive(w)
    \/ \E w \in Workers : DigesterHash(w)
    \/ \E w \in Workers : DigesterCtxDone(w)
    \/ \E w \in Workers : DigesterRangeEnd(w)
    \/ CloserClose
    \/ \E w \in Workers : DrainAggResult(w)
    \/ DrainAggResultsClosed
    \/ DrainAggDirPath
    \/ DrainAggDirPathsClosed
    \/ DrainAggWalkErr
    \/ DrainAggCtxDone
    \/ DrainErrcReceived

SpecDrain == InitDrain /\ [][NextDrain]_vars

\* C39: in the DigestAll whose aggregator, on observing cancellation,
\* receives once from errc before it returns, that receive always completes:
\* the aggregator is never in it with no goroutine able to take a step,
\* whether or not the walk outcome was received earlier in the loop and
\* whether or not the walker is blocked sending on one of its streams.
C39_DrainReceiveCompletes ==
    pcMain = "drainErrc" => ENABLED DrainStep

====
